---- MODULE Spec2Model ----
(***************************************************************************)
(* Model of the Northwind microservices: the API gateway (prefix router,   *)
(* token verifier, request forwarder, health aggregation), the auth        *)
(* service (request validation and AuthController, AuthService input       *)
(* validation, KeycloakClient calls and error classification), the         *)
(* products service (controller, service, repository, products table),     *)
(* the web client (AuthService, ProductsService, localStorage, the Logout   *)
(* control) and the shutdown of the three server processes.                 *)
(***************************************************************************)
EXTENDS Integers, Sequences, FiniteSets, TLC

VARIABLES
    gwPc,       \* position of the gateway's request handling
    gwReq,      \* the inbound request (req): method, path, headers
    gwUser,     \* req.user, set by the token verifier on success
    gwVerify,   \* how jwt.verify ended for this request
    gwTarget,   \* serviceName handed to forwardRequest
    gwCalls,    \* outbound axios calls issued for this request
    gwDown,     \* what the downstream call produced (response or error)
    gwRes,      \* the response sent to the caller
    asPc,       \* position of the auth service's current operation
    asCall,     \* the AuthService operation invoked and its arguments
    kcCalls,    \* calls made to the KeycloakClient (and their provider request)
    kcReply,    \* what the provider call produced
    asResult,   \* what the AuthService operation returned or threw
    acPc,       \* position of the auth controller's current handler
    acReq,      \* the request the auth controller handles: route, body, headers
    acRes,      \* the response the auth controller sent
    hcPc,       \* position of the gateway's GET /health handler
    hcFlight,   \* services whose health request is in flight
    hcOutcome,  \* how the health request of each service ended
    hcRes,      \* the response to GET /health
    pdPc,       \* position of the products service's current operation
    pdReq,      \* the operation and its inputs
    pdQueries,  \* repository queries executed for this operation
    pdRes,      \* the HTTP status (if a controller answered) and the result
    dbProducts, \* the products table: the row of each product id, if any
    dbNextId,   \* the next product id the table assigns
    pdCreated,  \* the last product created and not written since: id, values
    dbError,    \* the error the database raised for the awaited query, if any
    uiPc,       \* position of the web client's current operation
    uiOp,       \* the client operation called
    uiRequest,  \* the last axios request the operation issued
    uiReply,    \* what that request ended with
    uiResult,   \* what the operation returned or threw
    lsItems,    \* the browser's localStorage
    uiPath,     \* the router's location
    uiClicked,  \* the control of the page activated last
    procState,  \* each server process: running, closing, exited
    procSignal, \* the termination signal each process received
    exitCode,   \* the code each process exited with
    poolState,  \* the products service's connection pool: open, ending, closed
    poolClients \* clients of the pool checked out by queries in progress

gwVars == <<gwPc, gwReq, gwUser, gwVerify, gwTarget, gwCalls, gwDown, gwRes>>

asVars == <<asPc, asCall, kcCalls, kcReply, asResult>>

acVars == <<acPc, acReq, acRes>>

hcVars == <<hcPc, hcFlight, hcOutcome, hcRes>>

pdVars == <<pdPc, pdReq, pdQueries, pdRes, dbProducts, dbNextId, pdCreated, dbError>>

uiVars == <<uiPc, uiOp, uiRequest, uiReply, uiResult, lsItems, uiPath, uiClicked>>

shVars == <<procState, procSignal, exitCode, poolState, poolClients>>

vars == <<gwPc, gwReq, gwUser, gwVerify, gwTarget, gwCalls, gwDown, gwRes,
          asPc, asCall, kcCalls, kcReply, asResult, acPc, acReq, acRes,
          hcPc, hcFlight, hcOutcome, hcRes,
          pdPc, pdReq, pdQueries, pdRes, dbProducts, dbNextId, pdCreated, dbError,
          uiPc, uiOp, uiRequest, uiReply, uiResult, lsItems, uiPath, uiClicked,
          procState, procSignal, exitCode, poolState, poolClients>>

\* What the steps of each component leave alone
notGateway == <<asVars, acVars, hcVars, pdVars, uiVars, shVars>>

notAuth == <<gwVars, acVars, hcVars, pdVars, uiVars, shVars>>

\* The auth controller's steps drive the auth service too
notAuthApi == <<gwVars, hcVars, pdVars, uiVars, shVars>>

notHealth == <<gwVars, asVars, acVars, pdVars, uiVars, shVars>>

notProducts == <<gwVars, asVars, acVars, hcVars, uiVars, shVars>>

notUi == <<gwVars, asVars, acVars, hcVars, pdVars, shVars>>

notShutdown == <<gwVars, asVars, acVars, hcVars, pdVars, uiVars>>

None == [none |-> TRUE]

(***************************************************************************)
(* Generic helpers                                                         *)
(***************************************************************************)
Without(f, S) == [k \in (DOMAIN f) \ S |-> f[k]]

Includes(words, w) == \E i \in 1..Len(words) : words[i] = w

(***************************************************************************)
(* Gateway: service-proxy.ts                                               *)
(***************************************************************************)
\* initializeServices: the configured service map
services ==
    [products  |-> [name |-> "products",  baseUrl |-> "PRODUCTS_SERVICE_URL",
                    timeout |-> 5000, retries |-> 3],
     suppliers |-> [name |-> "suppliers", baseUrl |-> "SUPPLIERS_SERVICE_URL",
                    timeout |-> 5000, retries |-> 3],
     users     |-> [name |-> "users",     baseUrl |-> "USERS_SERVICE_URL",
                    timeout |-> 5000, retries |-> 3]]

\* Request paths as seen by the router mounted at /api: a leading segment
\* followed by nothing, by a sub-path ("/1") or by glued characters ("x",
\* as in /productsx).
Heads == {"/auth", "/products", "/suppliers", "/users", "/other"}
Tails == {"", "/1", "x"}
\* router.all(prefix + '*'): the pattern matches every path that starts
\* with the prefix
MatchAll(prefix, path) == path.head = prefix

\* router.use(prefix, mw): the prefix must end at a segment boundary
MatchUse(prefix, path) == path.head = prefix /\ path.tail \in {"", "/1"}

\* req.path.replace(from, to)
Replace(path, from, to) ==
    IF path.head = from THEN [head |-> to, tail |-> path.tail] ELSE path

\* sanitizeHeaders
StrippedRequestHeaders == {"host", "connection", "content-length", "transfer-encoding"}

sanitizeHeadersDroppingAuthorization(headers) ==
    Without(headers, StrippedRequestHeaders \cup {"authorization"})

sanitizeHeaders(headers) == Without(headers, StrippedRequestHeaders)

\* sanitizeResponseHeaders
StrippedResponseHeaders == {"transfer-encoding", "connection"}

sanitizeResponseHeaders(headers) == Without(headers, StrippedResponseHeaders)

NoHeaders == [n \in {} |-> <<"v">>]

\* Bodies on the wire: a JSON document (v is its value), non-JSON text, an
\* empty body, or a JSON string literal quoting some text.
EmptyBody == [kind |-> "empty", v |-> [text |-> ""]]

JsonBody(value) == [kind |-> "json", v |-> value]

\* axios' default transformResponse: a body that parses as JSON becomes its
\* value, any other body stays the string it was
AxiosParse(raw) ==
    IF raw.kind = "json" THEN [type |-> "value", v |-> raw.v]
    ELSE [type |-> "string", v |-> raw]

\* JSON.stringify as used by res.json(data)
JSONStringify(data) ==
    IF data.type = "value" THEN [kind |-> "json", v |-> data.v]
    ELSE [kind |-> "jsonString", v |-> data.v]

\* res.send drops the body of a 204 and of a 304
ResSend(status, body) == IF status \in {204, 304} THEN EmptyBody ELSE body

\* res.status(response.status).set(sanitizeResponseHeaders(..)).json(response.data)
RelayResponse(response) ==
    [status |-> response.status,
     set    |-> sanitizeResponseHeaders(response.headers),
     body   |-> ResSend(response.status, JSONStringify(AxiosParse(response.body)))]

\* res.status(n).json(obj) of the gateway's own answers
GatewayJson(status, obj) == [status |-> status, set |-> NoHeaders, body |-> JsonBody(obj)]

ServiceNotFoundUnnamed(serviceName) ==
    GatewayJson(404, [success |-> FALSE, error |-> <<"Service not found">>])

\* forwardRequest, unknown service: 404 naming the service
ServiceNotFound(serviceName) ==
    GatewayJson(404, [success |-> FALSE,
                      error   |-> <<"Service", serviceName, "not found">>])

\* The ways the awaited axios call of forwardRequest can be rejected, and the
\* error it carries (validateStatus accepts every status, so a rejection has
\* no response). "timeoutOption" is the expiry of the `timeout` set on the
\* call, which axios reports as ECONNABORTED; ETIMEDOUT is the socket-level
\* timeout of the operating system.
FailureKinds == {"refused", "dns", "socketTimeout", "timeoutOption", "local"}

AxiosError(kind) ==
    [code     |-> CASE kind = "refused"       -> "ECONNREFUSED"
                   [] kind = "dns"            -> "ENOTFOUND"
                   [] kind = "socketTimeout"  -> "ETIMEDOUT"
                   [] kind = "timeoutOption"  -> "ECONNABORTED"
                   [] OTHER                   -> "ERR_INVALID_URL",
     kind     |-> kind,
     response |-> None]

\* handleProxyError
handleProxyError(error, serviceName) ==
    IF error.code \in {"ECONNREFUSED", "ENOTFOUND", "ETIMEDOUT"}
    THEN GatewayJson(502, [success |-> FALSE,
                           error   |-> <<"Service", serviceName, "is currently unavailable">>,
                           code    |-> "SERVICE_UNAVAILABLE"])
    ELSE IF error.response # None
    THEN [status |-> error.response.status, set |-> NoHeaders,
          body |-> ResSend(error.response.status,
                           JSONStringify(AxiosParse(error.response.body)))]
    ELSE GatewayJson(500, [success |-> FALSE,
                           error   |-> <<"Internal gateway error">>,
                           code    |-> "GATEWAY_ERROR"])

(***************************************************************************)
(* Gateway: auth.middleware.ts                                             *)
(***************************************************************************)
\* How jwt.verify(token, getKey, {audience, issuer, algorithms}) can end
VerifyFailures == {"unreachable", "providerNotFound", "keyNotFound", "badSignature",
                   "audience", "issuer", "expired", "malformed"}

VerifyOutcomes == {"ok", "throws"} \cup VerifyFailures

\* err.message handed to the jwt.verify callback, as a sequence of phrases
VerifyErrorMessage(outcome) ==
    CASE outcome = "unreachable" ->
            <<"error in secret or public key callback:", "connect ECONNREFUSED">>
      [] outcome = "providerNotFound" ->
            <<"error in secret or public key callback:", "Not Found">>
      [] outcome = "keyNotFound" ->
            <<"error in secret or public key callback:",
              "Unable to find a signing key that matches">>
      [] outcome = "badSignature" -> <<"invalid signature">>
      [] outcome = "audience" -> <<"jwt", "audience", "invalid. expected:", "account">>
      [] outcome = "issuer" -> <<"jwt", "issuer", "invalid. expected:", "realm url">>
      [] outcome = "expired" -> <<"jwt expired">>
      [] OTHER -> <<"jwt malformed">>

VerifyErrorResponseIssuerFirst(message) ==
    LET errorMessage ==
            IF Includes(message, "Not Found") THEN "Keycloak server or realm not found"
            ELSE IF Includes(message, "issuer") THEN "Token audience mismatch"
            ELSE IF Includes(message, "audience") THEN "Token issuer mismatch"
            ELSE "Invalid or expired token"
    IN GatewayJson(401, [success |-> FALSE, error |-> <<errorMessage>>])

\* authenticate: the errorMessage chosen in the jwt.verify callback
VerifyErrorResponse(message) ==
    LET errorMessage ==
            IF Includes(message, "Not Found") THEN "Keycloak server or realm not found"
            ELSE IF Includes(message, "audience") THEN "Token audience mismatch"
            ELSE IF Includes(message, "issuer") THEN "Token issuer mismatch"
            ELSE "Invalid or expired token"
    IN GatewayJson(401, [success |-> FALSE, error |-> <<errorMessage>>])

\* authHeader.split(' ')[1]
TokenOf(authHeader) == IF Len(authHeader) >= 2 THEN authHeader[2] ELSE ""

(***************************************************************************)
(* Gateway: the request pipeline (index.ts, api.routes.ts)                 *)
(***************************************************************************)
Methods == {"GET", "POST"}

RequestPaths == [head : Heads, tail : Tails]

OtherHeaderNames == {"host", "connection", "content-length", "transfer-encoding",
                     "accept", "x-request-id"}

AuthorizationValues == {<<"Bearer">>, <<"Bearer", "tok">>}

\* The header maps a client can send: any of the other headers, with or
\* without an authorization header
InboundHeaders ==
    { [n \in hs |-> <<"v", n>>] : hs \in SUBSET OtherHeaderNames }
    \cup
    { [n \in hs \cup {"authorization"} |->
          IF n = "authorization" THEN a ELSE <<"v", n>>] :
      hs \in SUBSET OtherHeaderNames, a \in AuthorizationValues }

\* Request ID middleware: req.headers['x-request-id'] is kept or generated
RequestId(headers) ==
    [n \in (DOMAIN headers) \cup {"x-request-id"} |->
        IF n \in DOMAIN headers THEN headers[n] ELSE <<"generated">>]

ResponseHeaderNames == {"transfer-encoding", "connection", "content-type", "etag"}

DownStatuses == {200, 204, 404, 500}

DownBodies == {JsonBody([data |-> "payload"]),
               [kind |-> "text", v |-> [text |-> "OK"]],
               EmptyBody}

\* The responses a downstream service can give
DownResponses ==
    { r \in [status  : DownStatuses,
             headers : { [n \in hs |-> <<"v", n>>] : hs \in SUBSET ResponseHeaderNames },
             body    : DownBodies] :
      r.status = 204 => r.body = EmptyBody }

ProtectedPrefixes == {"/products", "/suppliers", "/users"}

GatewayInit ==
    /\ gwPc = "idle"
    /\ gwReq = None
    /\ gwUser = None
    /\ gwVerify = "none"
    /\ gwTarget = "none"
    /\ gwCalls = << >>
    /\ gwDown = None
    /\ gwRes = None

\* A request arrives and passes the request-id middleware
Receive ==
    /\ gwPc = "idle"
    /\ \E m \in Methods, p \in RequestPaths, h \in InboundHeaders :
          gwReq' = [method |-> m, path |-> p, headers |-> RequestId(h)]
    /\ gwPc' = "routing"
    /\ UNCHANGED <<gwUser, gwVerify, gwTarget, gwCalls, gwDown, gwRes>>
    /\ UNCHANGED notGateway

\* authMiddleware.authenticate, mounted with router.use on each protected prefix
authenticate ==
    /\ gwPc = "routing"
    /\ \E prefix \in ProtectedPrefixes : MatchUse(prefix, gwReq.path)
    /\ IF "authorization" \notin DOMAIN gwReq.headers
       THEN /\ gwRes' = GatewayJson(401, [success |-> FALSE,
                                          error |-> <<"No authorization header provided">>])
            /\ gwPc' = "done"
            /\ UNCHANGED <<gwUser, gwVerify>>
       ELSE IF TokenOf(gwReq.headers["authorization"]) = ""
       THEN /\ gwRes' = GatewayJson(401, [success |-> FALSE,
                                          error |-> <<"No token provided">>])
            /\ gwPc' = "done"
            /\ UNCHANGED <<gwUser, gwVerify>>
       ELSE \E outcome \in VerifyOutcomes :
            /\ gwVerify' = outcome
            /\ CASE outcome = "ok" ->
                        /\ gwUser' = [decoded |-> TokenOf(gwReq.headers["authorization"])]
                        /\ gwPc' = "next"
                        /\ UNCHANGED gwRes
                 [] outcome = "throws" ->
                        /\ gwRes' = GatewayJson(500, [success |-> FALSE,
                                           error |-> <<"Internal authentication error">>])
                        /\ gwPc' = "done"
                        /\ UNCHANGED gwUser
                 [] OTHER ->
                        /\ gwRes' = VerifyErrorResponse(VerifyErrorMessage(outcome))
                        /\ gwPc' = "done"
                        /\ UNCHANGED gwUser
    /\ UNCHANGED <<gwReq, gwTarget, gwCalls, gwDown>>
    /\ UNCHANGED notGateway

\* forwardRequest up to its await: 404 for an unknown service, else the
\* outbound axios call is issued
forwardRequest(serviceName, path) ==
    /\ gwTarget' = serviceName
    /\ IF serviceName \notin DOMAIN services
       THEN /\ gwRes' = ServiceNotFound(serviceName)
            /\ gwPc' = "done"
            /\ UNCHANGED gwCalls
       ELSE /\ gwCalls' = Append(gwCalls,
                            [service |-> serviceName,
                             method  |-> gwReq.method,
                             path    |-> path,
                             headers |-> sanitizeHeaders(gwReq.headers),
                             timeout |-> services[serviceName].timeout])
            /\ gwPc' = "awaiting"
            /\ UNCHANGED gwRes
    /\ UNCHANGED <<gwReq, gwUser, gwVerify, gwDown>>
    /\ UNCHANGED notGateway

\* The route handler is reached directly, or after the middleware called next()
Reaches(prefix) ==
    \/ gwPc = "next"
    \/ gwPc = "routing" /\ ~(prefix \in ProtectedPrefixes /\ MatchUse(prefix, gwReq.path))

\* router.all('/auth*')
RouteAuth ==
    /\ Reaches("/auth")
    /\ MatchAll("/auth", gwReq.path)
    /\ forwardRequest("auth", Replace(gwReq.path, "/auth", "/auth"))

\* router.all('/products*')
RouteProducts ==
    /\ Reaches("/products")
    /\ MatchAll("/products", gwReq.path)
    /\ forwardRequest("products", Replace(gwReq.path, "/products", "/api/v1/products"))

\* router.all('/suppliers*')
RouteSuppliers ==
    /\ Reaches("/suppliers")
    /\ MatchAll("/suppliers", gwReq.path)
    /\ forwardRequest("suppliers", Replace(gwReq.path, "/suppliers", "/api/v1/suppliers"))

\* router.all('/users*')
RouteUsers ==
    /\ Reaches("/users")
    /\ MatchAll("/users", gwReq.path)
    /\ forwardRequest("users", Replace(gwReq.path, "/users", "/api/v1/users"))

\* app.use('*'): the 404 handler for paths no route matches
RouteNotFound ==
    /\ gwPc = "routing"
    /\ \A prefix \in {"/auth"} \cup ProtectedPrefixes : ~MatchAll(prefix, gwReq.path)
    /\ gwRes' = GatewayJson(404, [success |-> FALSE, error |-> <<"Route not found">>,
                                  path |-> gwReq.path, method |-> gwReq.method])
    /\ gwPc' = "done"
    /\ UNCHANGED <<gwReq, gwUser, gwVerify, gwTarget, gwCalls, gwDown>>
    /\ UNCHANGED notGateway

\* The awaited axios call resolves: the response is relayed
DownstreamResponds ==
    /\ gwPc = "awaiting"
    /\ \E response \in DownResponses :
          /\ gwDown' = [response |-> response, error |-> None]
          /\ gwRes' = RelayResponse(response)
    /\ gwPc' = "done"
    /\ UNCHANGED <<gwReq, gwUser, gwVerify, gwTarget, gwCalls>>
    /\ UNCHANGED notGateway

\* A forwarder that honours the configured retry count: a rejected call is
\* issued again until the retries are used up
DownstreamFailsWithRetries ==
    /\ gwPc = "awaiting"
    /\ \E kind \in FailureKinds :
          /\ gwDown' = [response |-> None, error |-> AxiosError(kind)]
          /\ IF Len(gwCalls) <= services[gwTarget].retries
             THEN /\ gwCalls' = Append(gwCalls, gwCalls[Len(gwCalls)])
                  /\ UNCHANGED <<gwRes, gwPc>>
             ELSE /\ gwRes' = handleProxyError(AxiosError(kind), gwTarget)
                  /\ gwPc' = "done"
                  /\ UNCHANGED gwCalls
    /\ UNCHANGED <<gwReq, gwUser, gwVerify, gwTarget>>
    /\ UNCHANGED notGateway

\* The awaited axios call rejects: catch (error) -> handleProxyError
DownstreamFails ==
    /\ gwPc = "awaiting"
    /\ \E kind \in FailureKinds :
          /\ gwDown' = [response |-> None, error |-> AxiosError(kind)]
          /\ gwRes' = handleProxyError(AxiosError(kind), gwTarget)
    /\ gwPc' = "done"
    /\ UNCHANGED <<gwReq, gwUser, gwVerify, gwTarget, gwCalls>>
    /\ UNCHANGED notGateway

\* The request is over; the gateway keeps no state between requests
GatewayDone ==
    /\ gwPc = "done"
    /\ gwPc' = "idle"
    /\ gwReq' = None
    /\ gwUser' = None
    /\ gwVerify' = "none"
    /\ gwTarget' = "none"
    /\ gwCalls' = << >>
    /\ gwDown' = None
    /\ gwRes' = None
    /\ UNCHANGED notGateway

GatewayNext ==
    \/ Receive
    \/ authenticate
    \/ RouteAuth
    \/ RouteProducts
    \/ RouteSuppliers
    \/ RouteUsers
    \/ RouteNotFound
    \/ DownstreamResponds
    \/ DownstreamFails
    \/ GatewayDone

(***************************************************************************)
(* Auth service: auth.service.ts, keycloak.service.ts                      *)
(***************************************************************************)
MaxLen == 3

Chars == {" ", "a"}

\* The strings an operation can be called with
Strings == UNION { [1..n -> Chars] : n \in 0..MaxLen }

RECURSIVE trimStart(_)
trimStart(s) == IF Len(s) > 0 /\ s[1] = " " THEN trimStart(Tail(s)) ELSE s

RECURSIVE trimEnd(_)
trimEnd(s) == IF Len(s) > 0 /\ s[Len(s)] = " " THEN trimEnd(SubSeq(s, 1, Len(s) - 1)) ELSE s

\* String.prototype.trim
trim(s) == trimEnd(trimStart(s))

\* !s : the empty string is falsy
Falsy(s) == Len(s) = 0

NeverBlank(s) == FALSE

\* s.trim().length === 0
Blank(s) == Len(trim(s)) = 0

\* The provider's answers to a POST: resolved responses and rejections.
\* axios rejects a status outside 2xx with the response attached, and a
\* network failure with a code and no response.
TokenData == {[access_token |-> "at", refresh_token |-> "rt", token_type |-> "Bearer",
               expires_in |-> "300", refresh_expires_in |-> "1800"],
              [access_token |-> "", refresh_token |-> "", token_type |-> "",
               expires_in |-> "", refresh_expires_in |-> ""]}

ResolvedStatuses == {200, 204}

ErrorStatuses == {400, 401, 403, 404, 500, 503}

ProviderErrorBodies == [error : {"invalid_grant", "invalid_request", ""},
                        error_description : {"", "description"}]

NetworkCodes == {"ECONNREFUSED", "ENOTFOUND", "ETIMEDOUT", "ECONNABORTED", "ERR_NETWORK"}

TokenReplies ==
    { [kind |-> "resolved", status |-> st, data |-> d] : st \in ResolvedStatuses, d \in TokenData }
    \cup
    { [kind |-> "rejected", code |-> c, response |-> None] : c \in NetworkCodes }
    \cup
    { [kind |-> "rejected",
       code |-> IF st < 500 THEN "ERR_BAD_REQUEST" ELSE "ERR_BAD_RESPONSE",
       response |-> [status |-> st, data |-> b]] :
      st \in ErrorStatuses, b \in ProviderErrorBodies }

Failure(error, message) == [success |-> FALSE, error |-> error, message |-> message]

handleAuthenticationError403AsUnauthorized(error) ==
    IF error.code \in {"ECONNREFUSED", "ENOTFOUND"}
    THEN Failure("Keycloak server is not available", <<"unavailable">>)
    ELSE IF error.code = "ETIMEDOUT"
    THEN Failure("Request timeout", <<"timed out">>)
    ELSE IF error.response # None
    THEN LET status == error.response.status
             errorData == error.response.data
         IN CASE status = 400 ->
                    IF errorData.error = "invalid_grant"
                    THEN Failure("Invalid credentials", <<"Username or password is incorrect">>)
                    ELSE Failure("Bad request", <<"Invalid request parameters">>)
              [] status \in {401, 403} -> Failure("Unauthorized", <<"Access denied">>)
              [] status = 500 -> Failure("Server error", <<"Keycloak server error">>)
              [] OTHER -> Failure("Authentication failed", <<"Unexpected error occurred", status>>)
    ELSE Failure("Network error", <<"Failed to connect to authentication server">>)

\* KeycloakClient.handleAuthenticationError
handleAuthenticationError(error) ==
    IF error.code \in {"ECONNREFUSED", "ENOTFOUND"}
    THEN Failure("Keycloak server is not available",
                 <<"Authentication service is currently unavailable. Please try again later.">>)
    ELSE IF error.code = "ETIMEDOUT"
    THEN Failure("Request timeout", <<"Authentication request timed out. Please try again.">>)
    ELSE IF error.response # None
    THEN LET status == error.response.status
             errorData == error.response.data
         IN CASE status = 400 ->
                    IF errorData.error = "invalid_grant"
                    THEN Failure("Invalid credentials", <<"Username or password is incorrect">>)
                    ELSE Failure("Bad request",
                                 IF errorData.error_description # ""
                                 THEN <<errorData.error_description>>
                                 ELSE <<"Invalid request parameters">>)
              [] status = 401 ->
                    Failure("Unauthorized", <<"Invalid credentials or client configuration">>)
              [] status = 403 -> Failure("Forbidden", <<"Access denied">>)
              [] status = 500 ->
                    Failure("Server error", <<"Keycloak server error. Please try again later.">>)
              [] OTHER ->
                    Failure("Authentication failed", <<"Unexpected error occurred", status>>)
    ELSE Failure("Network error", <<"Failed to connect to authentication server">>)

\* new Error('Invalid response from Keycloak server'): no code, no response
InvalidResponseError == [kind |-> "rejected", code |-> "", response |-> None]

\* KeycloakClient.authenticate / refreshToken after the awaited axios.post
TokenResult(reply, successMessage) ==
    IF reply.kind = "resolved"
    THEN IF reply.status = 200 /\ reply.data.access_token # ""
         THEN [success          |-> TRUE,
               accessToken      |-> reply.data.access_token,
               refreshToken     |-> reply.data.refresh_token,
               tokenType        |-> reply.data.token_type,
               expiresIn        |-> reply.data.expires_in,
               refreshExpiresIn |-> reply.data.refresh_expires_in,
               message          |-> <<successMessage>>]
         ELSE handleAuthenticationError(InvalidResponseError)
    ELSE handleAuthenticationError(reply)

Returned(value) == [kind |-> "return", value |-> value]

Thrown(message) == [kind |-> "throw", value |-> [message |-> message]]

AuthInit ==
    /\ asPc = "idle"
    /\ asCall = None
    /\ kcCalls = << >>
    /\ kcReply = None
    /\ asResult = None

\* A call of a KeycloakClient method: its arguments and the form it posts
CallKeycloak(fn, args, endpoint, form) ==
    /\ kcCalls' = Append(kcCalls, [fn |-> fn, args |-> args,
                                   endpoint |-> endpoint, form |-> form])
    /\ asPc' = "awaiting"
    /\ UNCHANGED <<kcReply, asResult>>

\* An answer given without calling the KeycloakClient
AnswerLocally(result) ==
    /\ asResult' = result
    /\ asPc' = "done"
    /\ UNCHANGED <<kcCalls, kcReply>>

\* AuthService.authenticate(username, password) up to the awaited
\* KeycloakClient.authenticate
ServiceAuthenticate(username, password) ==
    /\ asPc = "idle"
    /\ asCall' = [op |-> "authenticate", args |-> <<username, password>>]
    /\ IF Falsy(username) \/ Falsy(password)
       THEN AnswerLocally(Returned(Failure("Missing credentials",
                              <<"Username and password are required">>)))
       ELSE IF Blank(username) \/ Blank(password)
       THEN AnswerLocally(Returned(Failure("Invalid credentials",
                              <<"Username and password cannot be empty">>)))
       ELSE CallKeycloak("authenticate", <<trim(username), password>>, "token",
                         [grant_type |-> "password", username |-> trim(username),
                          password |-> password])

\* AuthService.authenticate called with any two strings
AuthServiceAuthenticate ==
    /\ \E username \in Strings, password \in Strings : ServiceAuthenticate(username, password)
    /\ UNCHANGED notAuth

\* AuthService.refreshToken(refreshToken) up to the awaited
\* KeycloakClient.refreshToken
ServiceRefreshToken(refreshToken) ==
    /\ asPc = "idle"
    /\ asCall' = [op |-> "refreshToken", args |-> <<refreshToken>>]
    /\ IF Falsy(refreshToken) \/ Blank(refreshToken)
       THEN AnswerLocally(Returned(Failure("Missing refresh token",
                              <<"Refresh token is required">>)))
       ELSE CallKeycloak("refreshToken", <<trim(refreshToken)>>, "token",
                         [grant_type |-> "refresh_token",
                          refresh_token |-> trim(refreshToken)])

\* AuthService.refreshToken called with any string
AuthServiceRefreshToken ==
    /\ \E refreshToken \in Strings : ServiceRefreshToken(refreshToken)
    /\ UNCHANGED notAuth

\* AuthService.validateToken(token) up to the awaited
\* KeycloakClient.introspectToken
ServiceValidateToken(token) ==
    /\ asPc = "idle"
    /\ asCall' = [op |-> "validateToken", args |-> <<token>>]
    /\ IF Falsy(token) \/ Blank(token)
       THEN AnswerLocally(Thrown("Token is required"))
       ELSE CallKeycloak("introspectToken", <<trim(token)>>, "introspect",
                         [token |-> trim(token)])

\* AuthService.validateToken called with any string
AuthServiceValidateToken ==
    /\ \E token \in Strings : ServiceValidateToken(token)
    /\ UNCHANGED notAuth

\* AuthService.logout(refreshToken) up to the awaited KeycloakClient.logout
ServiceLogout(refreshToken) ==
    /\ asPc = "idle"
    /\ asCall' = [op |-> "logout", args |-> <<refreshToken>>]
    /\ IF Falsy(refreshToken) \/ Blank(refreshToken)
       THEN AnswerLocally(Returned(FALSE))
       ELSE CallKeycloak("logout", <<trim(refreshToken)>>, "logout",
                         [refresh_token |-> trim(refreshToken)])

\* AuthService.logout called with any string
AuthServiceLogout ==
    /\ \E refreshToken \in Strings : ServiceLogout(refreshToken)
    /\ UNCHANGED notAuth

\* KeycloakClient.authenticate / refreshToken: the token endpoint answers
TokenEndpointReplies ==
    /\ asPc = "awaiting"
    /\ asCall.op \in {"authenticate", "refreshToken"}
    /\ \E reply \in TokenReplies :
          /\ kcReply' = reply
          /\ asResult' = Returned(TokenResult(reply,
                            IF asCall.op = "authenticate" THEN "Authentication successful"
                            ELSE "Token refreshed successfully"))
    /\ asPc' = "done"
    /\ UNCHANGED <<asCall, kcCalls>>
    /\ UNCHANGED notAuth

\* KeycloakClient.introspectToken: response.data, or the introspection error
IntrospectEndpointReplies ==
    /\ asPc = "awaiting"
    /\ asCall.op = "validateToken"
    /\ \E reply \in { [kind |-> "resolved", status |-> 200, data |-> [active |-> a]] :
                        a \in BOOLEAN }
                    \cup { r \in TokenReplies : r.kind = "rejected" } :
          /\ kcReply' = reply
          /\ asResult' = IF reply.kind = "resolved" THEN Returned(reply.data)
                         ELSE Thrown("Token introspection failed")
    /\ asPc' = "done"
    /\ UNCHANGED <<asCall, kcCalls>>
    /\ UNCHANGED notAuth

\* KeycloakClient.logout: true when the post completes, false when it fails
LogoutEndpointReplies ==
    /\ asPc = "awaiting"
    /\ asCall.op = "logout"
    /\ \E reply \in { [kind |-> "resolved", status |-> 204, data |-> [active |-> FALSE]] }
                    \cup { r \in TokenReplies : r.kind = "rejected" } :
          /\ kcReply' = reply
          /\ asResult' = Returned(reply.kind = "resolved")
    /\ asPc' = "done"
    /\ UNCHANGED <<asCall, kcCalls>>
    /\ UNCHANGED notAuth

\* The operation is over; the service keeps no state between calls
AuthDone ==
    /\ asPc = "done"
    /\ asPc' = "idle"
    /\ asCall' = None
    /\ kcCalls' = << >>
    /\ kcReply' = None
    /\ asResult' = None
    /\ UNCHANGED notAuth

AuthNext ==
    \/ AuthServiceAuthenticate
    \/ AuthServiceRefreshToken
    \/ AuthServiceValidateToken
    \/ AuthServiceLogout
    \/ TokenEndpointReplies
    \/ IntrospectEndpointReplies
    \/ LogoutEndpointReplies
    \/ AuthDone

(***************************************************************************)
(* Auth controller: auth.controller.ts, validation.middleware.ts,          *)
(* auth.routes.ts                                                          *)
(***************************************************************************)
MaxBody == 2

BodyChars == {" ", "a", "<"}

BodyStrings == UNION { [1..n -> BodyChars] : n \in 0..MaxBody }

\* The JSON values a field of req.body can hold: absent, a string, a number
Undefined == [t |-> "undefined", s |-> << >>]

Str(s) == [t |-> "string", s |-> s]

Number1 == [t |-> "number", s |-> <<"1">>]

BodyValues == {Undefined, Number1} \cup { Str(s) : s \in BodyStrings }

\* express-validator turns the value into a string before a standard
\* validator or sanitizer sees it: '' for an absent value, String(v) otherwise
toString(v) == v.s

notEmpty(v) == Len(toString(v)) # 0

isLength(v, min, max) == Len(toString(v)) >= min /\ Len(toString(v)) <= max

isString(v) == v.t = "string"

\* The sanitizers .trim() and .escape() store a string back into req.body
trimSanitizer(v) == Str(trim(toString(v)))

escape(v) ==
    Str([k \in 1..Len(toString(v)) |->
            IF toString(v)[k] = "<" THEN "&lt;" ELSE toString(v)[k]])

\* loginValidation: the fields with a validation error
loginValidation(body) ==
    { f \in {"username", "password"} : ~(notEmpty(body[f]) /\ isLength(body[f], 1, 100)) }

\* refreshTokenValidation and logoutValidation
refreshTokenValidation(body) ==
    { f \in {"refreshToken"} : ~(notEmpty(body[f]) /\ isString(body[f])) }

\* The Authorization header of a request, as words separated by one space
\* (an empty word stands for two spaces in a row); the HTTP parser has
\* removed leading and trailing whitespace
AuthorizationHeaders ==
    {<<"Bearer">>, <<"Bearer", "tok">>, <<"Bearer", "", "tok">>,
     <<"Basic", "tok">>, <<"tok">>}

\* authHeader.startsWith('Bearer ')
startsWithBearer(authHeader) == Len(authHeader) >= 2 /\ authHeader[1] = "Bearer"

\* authHeader.substring(7): what follows 'Bearer ', spaces included
RECURSIVE substring7(_)
substring7(authHeader) ==
    IF Len(authHeader) <= 1 THEN << >>
    ELSE IF Len(authHeader) = 2 THEN (IF authHeader[2] = "" THEN << >> ELSE <<authHeader[2]>>)
    ELSE (IF authHeader[2] = "" THEN <<" ">> ELSE <<authHeader[2], " ">>)
         \o substring7(Tail(authHeader))

AuthJson(status, body) == [status |-> status, body |-> body]

\* The error strings of the adapter and the service, and the fragments of
\* getStatusCodeFromError that each of them contains
ErrorFragments(error) ==
    CASE error = "Invalid credentials"              -> {"Invalid credentials"}
      [] error = "Bad request"                      -> {"Bad request"}
      [] error = "Forbidden"                        -> {"Forbidden"}
      [] error = "Keycloak server is not available" -> {"not available"}
      [] error = "Request timeout"                  -> {"timeout"}
      [] OTHER                                      -> {}

getStatusCodeFromErrorTimeoutAs500(error) ==
    LET includes(fragment) == fragment \in ErrorFragments(error)
    IN IF includes("Invalid credentials") \/ includes("invalid_grant") THEN 401
       ELSE IF includes("Validation failed") \/ includes("Bad request") THEN 400
       ELSE IF includes("Forbidden") THEN 403
       ELSE IF includes("not available") THEN 503
       ELSE 500

\* AuthController.getStatusCodeFromError
getStatusCodeFromError(error) ==
    LET includes(fragment) == fragment \in ErrorFragments(error)
    IN IF includes("Invalid credentials") \/ includes("invalid_grant") THEN 401
       ELSE IF includes("Validation failed") \/ includes("Bad request") THEN 400
       ELSE IF includes("Forbidden") THEN 403
       ELSE IF includes("not available") \/ includes("timeout") THEN 503
       ELSE 500

ValidationFailed ==
    AuthJson(400, [success |-> FALSE, error |-> "Validation failed",
                   message |-> <<"Invalid request parameters">>])

InternalServerError(message) ==
    AuthJson(500, [success |-> FALSE, error |-> "Internal server error",
                   message |-> <<message>>])

\* login / refreshToken after the awaited service call: the token envelope,
\* the classified failure, or the catch block's answer
TokenResponse(result, catchMessage) ==
    IF result.kind = "throw" THEN InternalServerError(catchMessage)
    ELSE IF result.value.success
    THEN AuthJson(200, [success |-> TRUE,
                        data |-> [accessToken      |-> result.value.accessToken,
                                  refreshToken     |-> result.value.refreshToken,
                                  tokenType        |-> result.value.tokenType,
                                  expiresIn        |-> result.value.expiresIn,
                                  refreshExpiresIn |-> result.value.refreshExpiresIn],
                        message |-> result.value.message])
    ELSE AuthJson(getStatusCodeFromError(result.value.error),
                  [success |-> FALSE, error |-> result.value.error,
                   message |-> result.value.message])

LogoutResponseAlwaysSuccessful(result) ==
    IF result.kind = "throw"
    THEN InternalServerError("An unexpected error occurred during logout")
    ELSE AuthJson(200, [success |-> TRUE, message |-> <<"Logout successful">>])

\* logout after the awaited service call
LogoutResponse(result) ==
    IF result.kind = "throw"
    THEN InternalServerError("An unexpected error occurred during logout")
    ELSE IF result.value
    THEN AuthJson(200, [success |-> TRUE, message |-> <<"Logout successful">>])
    ELSE AuthJson(500, [success |-> FALSE, error |-> "Logout failed",
                        message |-> <<"Failed to invalidate tokens">>])

InvalidAuthorizationHeader ==
    AuthJson(400, [success |-> FALSE, error |-> "Invalid authorization header",
                   message |-> <<"Bearer token required">>])

ValidateResponseInactiveAs200(result) ==
    IF result.kind = "throw"
    THEN InternalServerError("An unexpected error occurred during token validation")
    ELSE AuthJson(200, [success |-> TRUE, data |-> result.value,
                        message |-> <<"Token is valid">>])

\* validateToken after the awaited service call
ValidateResponse(result) ==
    IF result.kind = "throw"
    THEN InternalServerError("An unexpected error occurred during token validation")
    ELSE IF result.value.active
    THEN AuthJson(200, [success |-> TRUE, data |-> result.value,
                        message |-> <<"Token is valid">>])
    ELSE AuthJson(401, [success |-> FALSE, error |-> "Invalid token",
                        message |-> <<"Token is not active or has expired">>])

AuthApiInit ==
    /\ acPc = "idle"
    /\ acReq = None
    /\ acRes = None

\* The handler answers without calling the service
RespondLocally(response) ==
    /\ acRes' = response
    /\ acPc' = "done"
    /\ UNCHANGED asVars

\* The handler is suspended at its awaited service call
AwaitService ==
    /\ acPc' = "calling"
    /\ UNCHANGED acRes

\* authService.authenticate(username, password) with req.body's values: the
\* password is whatever JSON value passed validation, and password.trim()
\* throws a TypeError when it is not a string
CallAuthenticate(username, password) ==
    IF ~isString(password) /\ ~Falsy(username)
    THEN /\ asPc = "idle"
         /\ asCall' = [op |-> "authenticate", args |-> <<username, toString(password)>>]
         /\ AnswerLocally(Thrown("password.trim is not a function"))
    ELSE ServiceAuthenticate(username, toString(password))

\* POST /login: loginValidation, then AuthController.login up to its await
Login ==
    /\ acPc = "idle"
    /\ \E body \in [username : BodyValues, password : BodyValues] :
          /\ acReq' = [route |-> "login", body |-> body]
          /\ IF loginValidation(body) # {}
             THEN RespondLocally(ValidationFailed)
             ELSE /\ CallAuthenticate(toString(escape(trimSanitizer(body.username))),
                                      body.password)
                  /\ AwaitService
    /\ UNCHANGED notAuthApi

\* POST /refresh: refreshTokenValidation, then AuthController.refreshToken
\* up to its await
Refresh ==
    /\ acPc = "idle"
    /\ \E body \in [refreshToken : BodyValues] :
          /\ acReq' = [route |-> "refresh", body |-> body]
          /\ IF refreshTokenValidation(body) # {}
             THEN RespondLocally(ValidationFailed)
             ELSE /\ ServiceRefreshToken(toString(trimSanitizer(body.refreshToken)))
                  /\ AwaitService
    /\ UNCHANGED notAuthApi

\* POST /logout: logoutValidation, then AuthController.logout up to its await
Logout ==
    /\ acPc = "idle"
    /\ \E body \in [refreshToken : BodyValues] :
          /\ acReq' = [route |-> "logout", body |-> body]
          /\ IF refreshTokenValidation(body) # {}
             THEN RespondLocally(ValidationFailed)
             ELSE /\ ServiceLogout(toString(trimSanitizer(body.refreshToken)))
                  /\ AwaitService
    /\ UNCHANGED notAuthApi

\* GET /validate: AuthController.validateToken up to its await
Validate ==
    /\ acPc = "idle"
    /\ \E authHeader \in {Undefined} \cup { Str(h) : h \in AuthorizationHeaders } :
          /\ acReq' = [route |-> "validate", authorization |-> authHeader]
          /\ IF authHeader = Undefined \/ ~startsWithBearer(authHeader.s)
             THEN RespondLocally(InvalidAuthorizationHeader)
             ELSE /\ ServiceValidateToken(substring7(authHeader.s))
                  /\ AwaitService
    /\ UNCHANGED notAuthApi

\* The awaited service call is over and the handler sends its response
LoginResponds ==
    /\ acPc = "calling" /\ asPc = "done" /\ acReq.route = "login"
    /\ acRes' = TokenResponse(asResult, "An unexpected error occurred during authentication")
    /\ acPc' = "done"
    /\ UNCHANGED <<acReq, asVars, notAuthApi>>

RefreshResponds ==
    /\ acPc = "calling" /\ asPc = "done" /\ acReq.route = "refresh"
    /\ acRes' = TokenResponse(asResult, "An unexpected error occurred during token refresh")
    /\ acPc' = "done"
    /\ UNCHANGED <<acReq, asVars, notAuthApi>>

LogoutResponds ==
    /\ acPc = "calling" /\ asPc = "done" /\ acReq.route = "logout"
    /\ acRes' = LogoutResponse(asResult)
    /\ acPc' = "done"
    /\ UNCHANGED <<acReq, asVars, notAuthApi>>

ValidateResponds ==
    /\ acPc = "calling" /\ asPc = "done" /\ acReq.route = "validate"
    /\ acRes' = ValidateResponse(asResult)
    /\ acPc' = "done"
    /\ UNCHANGED <<acReq, asVars, notAuthApi>>

\* The request is over; neither the controller nor the service keeps state
AuthApiDone ==
    /\ acPc = "done"
    /\ acPc' = "idle"
    /\ acReq' = None
    /\ acRes' = None
    /\ asPc' = "idle"
    /\ asCall' = None
    /\ kcCalls' = << >>
    /\ kcReply' = None
    /\ asResult' = None
    /\ UNCHANGED notAuthApi

AuthApiNext ==
    \/ Login
    \/ Refresh
    \/ Logout
    \/ Validate
    \/ TokenEndpointReplies
    \/ IntrospectEndpointReplies
    \/ LogoutEndpointReplies
    \/ LoginResponds
    \/ RefreshResponds
    \/ LogoutResponds
    \/ ValidateResponds
    \/ AuthApiDone

(***************************************************************************)
(* Gateway health aggregation: index.ts GET /health, service-proxy.ts      *)
(***************************************************************************)
\* Array.from(this.services.keys()): the configured names in insertion order
ServiceNames == <<"products", "suppliers", "users">>

\* How axios.get(baseUrl + '/health') can end: resolved with a 2xx status,
\* or rejected (error status, timeout, connection failure)
HealthOutcomes ==
    { [kind |-> "resolved", status |-> st] : st \in {200, 204} }
    \cup { [kind |-> "rejected", status |-> st] : st \in {0, 503} }

healthCheckAnyResponse(outcome) == outcome.kind = "resolved"

\* ServiceProxy.healthCheck after the awaited axios.get
healthCheck(outcome) == outcome.kind = "resolved" /\ outcome.status = 200

\* The entry getServiceStatus builds for one service
ServiceStatus(serviceName, isHealthy) ==
    [service |-> serviceName,
     status  |-> IF isHealthy THEN "healthy" ELSE "unhealthy",
     url     |-> services[serviceName].baseUrl]

\* app.get('/health') after the awaited getServiceStatus
HealthResponse(serviceStatuses) ==
    LET allHealthy == \A k \in 1..Len(serviceStatuses) : serviceStatuses[k].status = "healthy"
    IN GatewayJson(IF allHealthy THEN 200 ELSE 503,
                   [status   |-> IF allHealthy THEN "healthy" ELSE "degraded",
                    gateway  |-> "healthy",
                    services |-> serviceStatuses])

HealthInit ==
    /\ hcPc = "idle"
    /\ hcFlight = {}
    /\ hcOutcome = [k \in 1..Len(ServiceNames) |-> None]
    /\ hcRes = None

\* An aggregation that starts with the first service only
HealthReceiveFirstOnly ==
    /\ hcPc = "idle"
    /\ hcPc' = "checking"
    /\ hcFlight' = {1}
    /\ UNCHANGED <<hcOutcome, hcRes>>
    /\ UNCHANGED notHealth

\* GET /health arrives: getServiceStatus maps an async function over the
\* service names, so every health request is issued before any is awaited
HealthReceive ==
    /\ hcPc = "idle"
    /\ hcPc' = "checking"
    /\ hcFlight' = { k \in 1..Len(ServiceNames) : ServiceNames[k] \in DOMAIN services }
    /\ UNCHANGED <<hcOutcome, hcRes>>
    /\ UNCHANGED notHealth

\* One of the health requests in flight ends
HealthCheckEnds ==
    /\ hcPc = "checking"
    /\ \E k \in hcFlight, outcome \in HealthOutcomes :
          /\ hcFlight' = hcFlight \ {k}
          /\ hcOutcome' = [hcOutcome EXCEPT ![k] = outcome]
    /\ UNCHANGED <<hcPc, hcRes>>
    /\ UNCHANGED notHealth

\* Promise.all has every status: the handler answers
HealthResponds ==
    /\ hcPc = "checking"
    /\ hcFlight = {}
    /\ hcRes' = HealthResponse([k \in 1..Len(ServiceNames) |->
                                  ServiceStatus(ServiceNames[k], healthCheck(hcOutcome[k]))])
    /\ hcPc' = "done"
    /\ UNCHANGED <<hcFlight, hcOutcome>>
    /\ UNCHANGED notHealth

HealthDone ==
    /\ hcPc = "done"
    /\ hcPc' = "idle"
    /\ hcOutcome' = [k \in 1..Len(ServiceNames) |-> None]
    /\ hcRes' = None
    /\ UNCHANGED hcFlight
    /\ UNCHANGED notHealth

HealthNext ==
    \/ HealthReceive
    \/ HealthCheckEnds
    \/ HealthResponds
    \/ HealthDone

(***************************************************************************)
(* Products service: product.controller.ts, product.service.ts,            *)
(* product.repository.ts and the products table                            *)
(***************************************************************************)
MaxId == 2

\* A column value or a JSON field: null, or one value
Null == << >>

Some(v) == <<v>>

\* COALESCE($n, column)
COALESCE(value, column) == IF value = Null THEN column ELSE value

\* JavaScript numbers as the controller meets them: null, NaN or an integer
JsNull == [kind |-> "null", n |-> 0]

NaN == [kind |-> "NaN", n |-> 0]

Num(n) == [kind |-> "number", n |-> n]

\* !v for null, NaN and numbers
Not(v) == v.kind # "number" \/ v.n = 0

\* isNaN(v): null converts to 0
isNaN(v) == v.kind = "NaN"

Digits == {"0", "1", "2"}

DigitValue(c) == CASE c = "0" -> 0 [] c = "1" -> 1 [] c = "2" -> 2

RECURSIVE leadingDigits(_)
leadingDigits(s) ==
    IF Len(s) > 0 /\ s[1] \in Digits THEN <<s[1]>> \o leadingDigits(Tail(s)) ELSE << >>

RECURSIVE digitsValue(_)
digitsValue(d) ==
    IF Len(d) = 0 THEN 0
    ELSE 10 * digitsValue(SubSeq(d, 1, Len(d) - 1)) + DigitValue(d[Len(d)])

\* parseInt(s, 10): an optional sign and the longest prefix of digits; NaN
\* when there is no digit to read
parseInt(s) ==
    LET negative == Len(s) > 0 /\ s[1] = "-"
        unsigned == IF negative THEN Tail(s) ELSE s
        d == leadingDigits(unsigned)
    IN IF Len(d) = 0 THEN NaN
       ELSE Num(IF negative THEN 0 - digitsValue(d) ELSE digitsValue(d))

\* The strings a path segment or a query parameter can hold
ParamStrings == {<<"1">>, <<"2">>, <<"0">>, <<"-", "1">>, <<"a">>, <<"1", "a">>}

\* req.query.category / req.query.supplier: absent, empty or a string
QueryValues == {Null, Some(<< >>)} \cup { Some(s) : s \in ParamStrings }

\* req.query.x ? parseInt(req.query.x, 10) : null
queryId(q) == IF q = Null \/ Len(q[1]) = 0 THEN JsNull ELSE parseInt(q[1])

\* The columns of products other than product_id
Columns == {"product_name", "supplier_id", "category_id", "quantity_per_unit",
            "unit_price", "units_in_stock", "units_on_order", "reorder_level",
            "discontinued"}

SmallintColumns == {"supplier_id", "category_id", "units_in_stock", "units_on_order",
                    "reorder_level"}

NotNullColumns == {"product_name", "discontinued"}

\* The products a caller submits to createProduct
NewProducts ==
    [product_name      : {Some("Chai"), Null},
     supplier_id       : {Some(1)},
     category_id       : {Some(1), Some(2)},
     quantity_per_unit : {Some("10 boxes")},
     unit_price        : {Some(18), Some(16777217)},
     units_in_stock    : {Some(39)},
     units_on_order    : {Some(0)},
     reorder_level     : {Some(10)},
     discontinued      : {Some(0)}]

NoChange == [c \in Columns |-> Null]

\* The partial products a caller submits to updateProduct: the fields the
\* object has, and the value of each (a nullable field can be given as null)
Patches ==
    {[given |-> {}, values |-> NoChange],
     [given |-> {"category_id"}, values |-> [NoChange EXCEPT !.category_id = Some(2)]],
     [given |-> {"category_id"}, values |-> NoChange],
     [given |-> {"unit_price"}, values |-> [NoChange EXCEPT !.unit_price = Some(20)]],
     [given |-> {"unit_price", "units_in_stock"},
      values |-> [NoChange EXCEPT !.unit_price = Some(20), !.units_in_stock = Some(32768)]]}

\* The query parameters built from a partial product: pg sends a field the
\* object lacks (undefined) as null, like a field that is null
Parameters(product) ==
    [c \in Columns |-> IF c \in product.given THEN product.values[c] ELSE Null]

\* The value a column of type real holds for a number: the nearest number
\* with a 24-bit significand, ties to even
RECURSIVE ulp(_, _)
ulp(n, q) == IF n < 16777216 * q THEN q ELSE ulp(n, 2 * q)

toReal(n) ==
    LET q == ulp(n, 1)
        low == (n \div q) * q
        rest == n - low
    IN IF 2 * rest < q THEN low
       ELSE IF 2 * rest > q THEN low + q
       ELSE IF (low \div q) % 2 = 0 THEN low ELSE low + q

smallint(n) == n >= -32768 /\ n <= 32767

\* The table accepts the values: NOT NULL columns are given and smallint
\* columns are in range
Accepted(values) ==
    /\ \A c \in NotNullColumns : values[c] # Null
    /\ \A c \in SmallintColumns : values[c] # Null => smallint(values[c][1])

StoredAsSubmitted(values) == values

\* The values as the table stores them
Stored(values) ==
    [values EXCEPT !.unit_price = IF @ = Null THEN Null ELSE Some(toReal(@[1]))]

\* A row as a query returns it
Row(id, values) == [c \in Columns \cup {"product_id"} |->
                       IF c = "product_id" THEN Some(id) ELSE values[c]]

Ids == 1..MaxId

\* SELECT ... FROM products ORDER BY product_id
SelectAll(table) ==
    LET present == { id \in Ids : table[id] # Null }
        rank(id) == Cardinality({ other \in present : other < id }) + 1
    IN [k \in 1..Cardinality(present) |->
           LET id == CHOOSE i \in present : rank(i) = k IN Row(id, table[id][1])]

\* SELECT ... WHERE <column> = $1 (every name in the table is the same, so
\* ORDER BY product_name leaves the order open: the rows are given as a set)
SelectWhere(table, column, value) ==
    { Row(id, table[id][1]) :
        id \in { i \in Ids : table[i] # Null /\ table[i][1][column] = Some(value) } }

\* SELECT ... WHERE product_id = $1: result.rows[0] or null
SelectById(table, id) ==
    IF id \in Ids /\ table[id] # Null THEN Some(Row(id, table[id][1])) ELSE Null

\* ApiResponse values
Success(data, message) ==
    [success |-> TRUE, data |-> Some(data), error |-> Null, message |-> Some(message)]

ErrorResult(error) ==
    [success |-> FALSE, data |-> Null, error |-> Some(error), message |-> Null]

\* `Product with ID ${productId} not found`
NotFound(productId) == [text |-> "Product with ID {id} not found", id |-> Some(productId)]

Message(text) == [text |-> text, id |-> Null]

\* result.error?.includes('not found')
includesNotFound(result) ==
    result.error # Null /\ result.error[1].text = "Product with ID {id} not found"

\* The message of the Error each repository method throws when its query fails
RepositoryError(query) ==
    Message(CASE query = "getAllProducts"        -> "Failed to fetch products from database"
              [] query = "getProductById"        -> "Failed to fetch product from database"
              [] query = "getProductsByCategory" -> "Failed to fetch products by category from database"
              [] query = "getProductsBySupplier" -> "Failed to fetch products by supplier from database"
              [] query = "createProduct"         -> "Failed to create product"
              [] query = "updateProduct"         -> "Failed to update product"
              [] query = "deleteProduct"         -> "Failed to delete product")

\* What the database can raise for a query: node-pg errors carry a message
\* and, when the server raised them, an SQLSTATE code
DatabaseErrors ==
    {[message |-> "connect ECONNREFUSED 127.0.0.1:5432", code |-> "none"],
     [message |-> "smallint out of range", code |-> "22003"],
     [message |-> "null value in column product_name violates not-null constraint",
      code |-> "23502"]}

\* A catch block of the repository with the database's message let through
RethrownWithDetail(query, err) == Message(err.message)

\* The catch block of a repository method: the database's error is logged
\* and a new Error with the method's own message is thrown
Rethrown(query, err) == RepositoryError(query)

\* The status the handler in front of the service gives a result:
\* getAllProducts answers 200 or 500, getProductById 200, 404 or 400; the
\* write operations are called on the service itself
listStatus(result) == IF result.success THEN 200 ELSE 500

byIdStatusNotFoundAs400(result) == IF result.success THEN 200 ELSE 400

byIdStatus(result) ==
    IF result.success THEN 200
    ELSE IF includesNotFound(result) THEN 404 ELSE 400

HandlerStatus(op, result) ==
    CASE op = "getAllProducts" -> Some(listStatus(result))
      [] op = "getProductById" -> Some(byIdStatus(result))
      [] OTHER                 -> Null

ProductsInit ==
    /\ pdPc = "idle"
    /\ pdReq = None
    /\ pdQueries = << >>
    /\ pdRes = None
    /\ dbProducts = [id \in Ids |-> Null]
    /\ dbNextId = 1
    /\ pdCreated = None
    /\ dbError = None

\* A repository method runs its query and awaits the database
Query(name, args) ==
    /\ pdQueries' = Append(pdQueries, [query |-> name, args |-> args])
    /\ pdPc' = "querying"
    /\ UNCHANGED pdRes

\* The operation is over: the service's result and the handler's status
Answer(op, result) ==
    /\ pdRes' = [status |-> HandlerStatus(op, result), result |-> result]
    /\ pdPc' = "done"

\* ProductService.getProductsByCategory / getProductsBySupplier up to the
\* awaited repository call
FilteredQuery(op, query, id, invalid) ==
    IF Not(id) \/ id.n <= 0
    THEN Answer(op, ErrorResult(Message(invalid))) /\ UNCHANGED pdQueries
    ELSE Query(query, <<id.n>>)

\* GET /api/v1/products: ProductController.getAllProducts up to its await
GetAllProducts ==
    /\ pdPc = "idle"
    /\ \E category \in QueryValues, supplier \in QueryValues :
          LET categoryId == queryId(category)
              supplierId == queryId(supplier)
          IN /\ pdReq' = [op |-> "getAllProducts", category |-> category,
                          supplier |-> supplier]
             /\ IF ~Not(categoryId) /\ ~isNaN(categoryId)
                THEN FilteredQuery("getAllProducts", "getProductsByCategory", categoryId,
                                   "Invalid category ID provided")
                ELSE IF ~Not(supplierId) /\ ~isNaN(supplierId)
                THEN FilteredQuery("getAllProducts", "getProductsBySupplier", supplierId,
                                   "Invalid supplier ID provided")
                ELSE Query("getAllProducts", << >>)
    /\ UNCHANGED <<dbProducts, dbNextId, pdCreated, dbError>>
    /\ UNCHANGED notProducts

\* GET /api/v1/products/:id: ProductController.getProductById and
\* ProductService.getProductById up to the awaited repository call
GetProductById ==
    /\ pdPc = "idle"
    /\ \E id \in ParamStrings :
          LET productId == parseInt(id)
          IN /\ pdReq' = [op |-> "getProductById", id |-> id]
             /\ IF isNaN(productId)
                THEN /\ pdRes' = [status |-> Some(400),
                                  result |-> ErrorResult(Message("Invalid product ID format"))]
                     /\ pdPc' = "done"
                     /\ UNCHANGED pdQueries
                ELSE IF Not(productId) \/ productId.n <= 0
                THEN /\ Answer("getProductById",
                               ErrorResult(Message("Invalid product ID provided")))
                     /\ UNCHANGED pdQueries
                ELSE Query("getProductById", <<productId.n>>)
    /\ UNCHANGED <<dbProducts, dbNextId, pdCreated, dbError>>
    /\ UNCHANGED notProducts

\* ProductService.createProduct up to the awaited repository call
CreateProduct ==
    /\ pdPc = "idle"
    /\ dbNextId <= MaxId
    /\ \E product \in NewProducts :
          /\ pdReq' = [op |-> "createProduct", product |-> product]
          /\ Query("createProduct", <<product>>)
    /\ UNCHANGED <<dbProducts, dbNextId, pdCreated, dbError>>
    /\ UNCHANGED notProducts

\* ProductService.updateProduct up to the awaited repository call
UpdateProduct ==
    /\ pdPc = "idle"
    /\ \E productId \in Ids, product \in Patches :
          /\ pdReq' = [op |-> "updateProduct", id |-> productId, product |-> product]
          /\ Query("updateProduct", <<productId, Parameters(product)>>)
    /\ UNCHANGED <<dbProducts, dbNextId, pdCreated, dbError>>
    /\ UNCHANGED notProducts

\* ProductService.deleteProduct up to the awaited repository call
DeleteProduct ==
    /\ pdPc = "idle"
    /\ \E productId \in Ids :
          /\ pdReq' = [op |-> "deleteProduct", id |-> productId]
          /\ Query("deleteProduct", <<productId>>)
    /\ UNCHANGED <<dbProducts, dbNextId, pdCreated, dbError>>
    /\ UNCHANGED notProducts

\* The values an UPDATE leaves in the row
Updated(row, product) == [c \in Columns |-> COALESCE(product[c], row[c])]

\* The database rejects the statement: the values are not accepted
Rejects(q, table) ==
    CASE q.query = "createProduct" -> ~Accepted(q.args[1])
      [] q.query = "updateProduct" ->
            table[q.args[1]] # Null /\ ~Accepted(Updated(table[q.args[1]][1], q.args[2]))
      [] OTHER -> FALSE

TableAfterKeepingDeleted(q, table, nextId) ==
    CASE q.query = "createProduct" -> [table EXCEPT ![nextId] = Some(Stored(q.args[1]))]
      [] q.query = "updateProduct" ->
            [table EXCEPT ![q.args[1]] =
                IF @ = Null THEN Null ELSE Some(Stored(Updated(@[1], q.args[2])))]
      [] OTHER -> table

\* The table after the statement ran
TableAfter(q, table, nextId) ==
    CASE q.query = "createProduct" -> [table EXCEPT ![nextId] = Some(Stored(q.args[1]))]
      [] q.query = "updateProduct" ->
            [table EXCEPT ![q.args[1]] =
                IF @ = Null THEN Null ELSE Some(Stored(Updated(@[1], q.args[2])))]
      [] q.query = "deleteProduct" -> [table EXCEPT ![q.args[1]] = Null]
      [] OTHER -> table

\* The service's result once the repository call returned: before is the
\* table the statement ran on, after the table it left
ServiceResult(q, before, after, nextId) ==
    CASE q.query = "getAllProducts" ->
            Success(SelectAll(before), "Retrieved {n} products successfully")
      [] q.query = "getProductsByCategory" ->
            Success(SelectWhere(before, "category_id", q.args[1]),
                    "Retrieved {n} products for category {id}")
      [] q.query = "getProductsBySupplier" ->
            Success(SelectWhere(before, "supplier_id", q.args[1]),
                    "Retrieved {n} products for supplier {id}")
      [] q.query = "getProductById" ->
            IF SelectById(before, q.args[1]) = Null
            THEN ErrorResult(NotFound(q.args[1]))
            ELSE Success(SelectById(before, q.args[1])[1], "Product retrieved successfully")
      [] q.query = "createProduct" ->
            Success(SelectById(after, nextId)[1], "Product created successfully")
      [] q.query = "updateProduct" ->
            IF SelectById(after, q.args[1]) = Null
            THEN ErrorResult(NotFound(q.args[1]))
            ELSE Success(SelectById(after, q.args[1])[1], "Product updated successfully")
      [] q.query = "deleteProduct" ->
            IF SelectById(before, q.args[1]) = Null
            THEN ErrorResult(NotFound(q.args[1]))
            ELSE [success |-> TRUE, data |-> Null, error |-> Null,
                  message |-> Some("Product deleted successfully")]

\* The awaited query ends, with rows or with an error the repository
\* rethrows under its own message, and the operation runs to its end
DatabaseAnswers ==
    /\ pdPc = "querying"
    /\ LET q == pdQueries[Len(pdQueries)]
           after == TableAfter(q, dbProducts, dbNextId)
       IN \/ \E err \in DatabaseErrors :
                /\ dbError' = err
                /\ Answer(pdReq.op, ErrorResult(Rethrown(q.query, err)))
                /\ UNCHANGED <<dbProducts, dbNextId, pdCreated>>
          \/ /\ ~Rejects(q, dbProducts)
             /\ dbError' = None
             /\ Answer(pdReq.op, ServiceResult(q, dbProducts, after, dbNextId))
             /\ dbProducts' = after
             /\ dbNextId' = IF q.query = "createProduct" THEN dbNextId + 1 ELSE dbNextId
             /\ pdCreated' =
                   IF q.query = "createProduct"
                   THEN [id |-> dbNextId, submitted |-> q.args[1]]
                   ELSE IF /\ q.query \in {"updateProduct", "deleteProduct"}
                           /\ pdCreated # None
                           /\ pdCreated.id = q.args[1]
                   THEN None
                   ELSE pdCreated
    /\ UNCHANGED <<pdReq, pdQueries>>
    /\ UNCHANGED notProducts

\* The operation is over; the table stays as it is
ProductsDone ==
    /\ pdPc = "done"
    /\ pdPc' = "idle"
    /\ pdReq' = None
    /\ pdQueries' = << >>
    /\ pdRes' = None
    /\ dbError' = None
    /\ UNCHANGED <<dbProducts, dbNextId, pdCreated>>
    /\ UNCHANGED notProducts

ProductsNext ==
    \/ GetAllProducts
    \/ GetProductById
    \/ CreateProduct
    \/ UpdateProduct
    \/ DeleteProduct
    \/ DatabaseAnswers
    \/ ProductsDone

(***************************************************************************)
(* Web client: services/authService.ts, services/productsService.ts,       *)
(* components/Navbar.tsx and the browser's localStorage                     *)
(***************************************************************************)

ACCESS_TOKEN_KEY == "northwind_access_token"

REFRESH_TOKEN_KEY == "northwind_refresh_token"

USER_DATA_KEY == "northwind_user_data"

SessionKeys == {ACCESS_TOKEN_KEY, REFRESH_TOKEN_KEY, USER_DATA_KEY}

\* The localStorage keys the client touches
StorageKeys == SessionKeys \cup {"jwtToken"}

\* Tokens a server hands out (two generations of each); a field a reply
\* lacks is Null
AccessTokens == {"at0", "at"}

RefreshTokens == {"rt0", "rt"}

Usernames == {"alice"}

\* A reply body: the fields the client reads from it
Body(data, access_token, refresh_token, expires_in, message) ==
    [data |-> data, access_token |-> access_token, refresh_token |-> refresh_token,
     expires_in |-> expires_in, message |-> message]

NoFields == Body(Null, Null, Null, Null, Null)

\* The auth service's envelope: the tokens under data, in camel case
EnvelopeTokens(accessToken, refreshToken) ==
    Body(Some([isArray |-> FALSE, accessToken |-> accessToken,
               refreshToken |-> refreshToken, expiresIn |-> Some(300)]),
         Null, Null, Null, Null)

\* The provider's own token reply: the tokens at the top, in snake case
FlatTokens(access_token, refresh_token) ==
    Body(Null, access_token, refresh_token, Some(300), Null)

ProductList ==
    Body(Some([isArray |-> TRUE, accessToken |-> Null, refreshToken |-> Null,
               expiresIn |-> Null]),
         Null, Null, Null, Null)

Response(status, body) == [kind |-> "response", status |-> status, code |-> "", body |-> body]

NetworkError(code) == [kind |-> "error", status |-> 0, code |-> code, body |-> NoFields]

UiErrorStatuses == {400, 401, 403, 404, 500}

\* What axios can end an awaited request with: any reply of the server at
\* REACT_APP_API_URL, no connection, or the request's timeout
UiReplies ==
    { Response(200, EnvelopeTokens(Some(a), r)) :
         a \in AccessTokens, r \in {Some("rt"), Null} }
    \cup { Response(200, FlatTokens(Some(a), r)) :
              a \in AccessTokens, r \in {Some("rt"), Null} }
    \cup { Response(200, b) : b \in {ProductList, NoFields} }
    \cup { Response(st, b) :
              st \in UiErrorStatuses,
              b \in {NoFields, Body(Null, Null, Null, Null, Some("Invalid request parameters"))} }
    \cup { NetworkError(c) : c \in {"ECONNREFUSED", "ECONNABORTED"} }

\* axios resolves on a 2xx status and rejects otherwise
Resolved(reply) == reply.kind = "response" /\ reply.status = 200

\* localStorage.setItem(key, value): the value is stored as a string
asStored(value) == IF value = Null THEN Some("undefined") ELSE value

\* Date.now() + expiresIn * 1000: a later instant, or NaN (Null here, as
\* JSON.stringify writes it) when expiresIn is undefined
ExpiresAt(expiresIn) == IF expiresIn = Null THEN Null ELSE Some("later")

AuthUser(username, token, refreshToken, expiresAt) ==
    [username |-> username, token |-> token, refreshToken |-> refreshToken,
     expiresAt |-> expiresAt]

\* A storeAuthData that leaves the user data out
storeAuthDataTokensOnly(items, user) ==
    [items EXCEPT ![ACCESS_TOKEN_KEY] = asStored(user.token),
                  ![REFRESH_TOKEN_KEY] = asStored(user.refreshToken)]

\* AuthService.storeAuthData
storeAuthData(items, user) ==
    [items EXCEPT ![ACCESS_TOKEN_KEY] = asStored(user.token),
                  ![REFRESH_TOKEN_KEY] = asStored(user.refreshToken),
                  ![USER_DATA_KEY] = Some([username |-> user.username,
                                           expiresAt |-> user.expiresAt])]

\* AuthService.clearAuthData
clearAuthData(items) ==
    [k \in StorageKeys |-> IF k \in SessionKeys THEN Null ELSE items[k]]

\* !value of a string | null read from localStorage
Missing(item) == item = Null \/ item = Some("")

\* AuthService.getAuthorizationHeader: the token sent as Bearer, if any
getAuthorizationHeader(items) ==
    IF Missing(items[ACCESS_TOKEN_KEY]) THEN Null ELSE items[ACCESS_TOKEN_KEY]

\* An outbound request: the body is its set of <<field, value>> pairs
Request(method, url, body, authorization) ==
    [method |-> method, url |-> url, body |-> body, authorization |-> authorization]

\* AuthService.login after the awaited post
LoginOutcome(items, username, reply) ==
    IF Resolved(reply)
    THEN IF reply.body.data = Null
         THEN [result |-> Thrown("An unexpected error occurred during login"),
               items |-> items]
         ELSE LET data == reply.body.data[1]
                  user == AuthUser(username, data.accessToken, data.refreshToken,
                                   ExpiresAt(data.expiresIn))
              IN [result |-> Returned(Some(user)), items |-> storeAuthData(items, user)]
    ELSE [result |->
             Thrown(IF reply.kind = "response" /\ reply.status = 401
                    THEN "Invalid username or password"
                    ELSE IF reply.kind = "response" /\ reply.status >= 500
                    THEN "Authentication service is temporarily unavailable"
                    ELSE IF reply.code = "ECONNREFUSED"
                    THEN "Unable to connect to authentication service"
                    ELSE IF reply.body.message # Null THEN reply.body.message[1]
                    ELSE "Login failed"),
          items |-> items]

\* AuthService.refreshToken after the awaited post, refreshToken being the
\* token it read from localStorage before
RefreshOutcome(items, refreshToken, reply) ==
    IF ~Resolved(reply)
    THEN [result |-> Returned(Null), items |-> clearAuthData(items)]
    ELSE IF items[USER_DATA_KEY] = Null
    THEN [result |-> Returned(Null), items |-> items]
    ELSE LET user == AuthUser(items[USER_DATA_KEY][1].username,
                              reply.body.access_token,
                              IF Missing(reply.body.refresh_token)
                              THEN Some(refreshToken)
                              ELSE reply.body.refresh_token,
                              ExpiresAt(reply.body.expires_in))
         IN [result |-> Returned(Some(user)), items |-> storeAuthData(items, user)]

\* ProductsService.getProducts: what it throws for a rejected request other
\* than a 401
ProductsError(reply) ==
    IF reply.kind = "response" /\ reply.status = 403
    THEN "You do not have permission to access products"
    ELSE IF reply.kind = "response" /\ reply.status = 404
    THEN "Products service not found"
    ELSE IF reply.kind = "response" /\ reply.status >= 500
    THEN "Products service is temporarily unavailable"
    ELSE IF reply.code = "ECONNREFUSED"
    THEN "Unable to connect to products service"
    ELSE IF reply.code = "ECONNABORTED"
    THEN "Request timeout - products service is taking too long to respond"
    ELSE IF reply.body.message # Null THEN reply.body.message[1]
    ELSE "Failed to fetch products"

\* req.body as the auth service's validators read it: the token of a
\* refreshToken field (a non-empty string), undefined without that field
ReceivedBody(body) ==
    [refreshToken |-> IF \E p \in body : p[1] = "refreshToken"
                      THEN Str(<<"a">>)
                      ELSE Undefined]

\* What the auth service answers to POST /refresh with this body when the
\* provider accepts the token and issues new ones
AuthServiceRefresh(body) ==
    IF refreshTokenValidation(ReceivedBody(body)) # {}
    THEN Response(ValidationFailed.status,
                  Body(Null, Null, Null, Null, ValidationFailed.body.message))
    ELSE Response(200, EnvelopeTokens(Some("at"), Some("rt")))

UiInit ==
    /\ uiPc = "idle"
    /\ uiOp = None
    /\ uiRequest = None
    /\ uiReply = None
    /\ uiResult = None
    /\ lsItems = [k \in StorageKeys |-> Null]
    /\ uiPath = "/login"
    /\ uiClicked = ""

\* The operation is suspended at an awaited axios call
Await(request) ==
    /\ uiRequest' = request
    /\ uiReply' = None
    /\ uiPc' = "awaiting"
    /\ UNCHANGED uiResult

\* The operation returns or throws
Settle(result) ==
    /\ uiResult' = result
    /\ uiPc' = "done"

\* A client operation is called; one runs at a time
Call(op) ==
    /\ uiPc = "idle"
    /\ uiOp' = op
    /\ UNCHANGED <<uiPath, uiClicked>>
    /\ UNCHANGED notUi

\* AuthService.login up to its await
UiLogin ==
    /\ \E username \in Usernames :
          /\ Call([name |-> "login", username |-> username])
          /\ Await(Request("POST", "/api/auth/login",
                           {<<"username", username>>, <<"password", "secret">>}, Null))
    /\ UNCHANGED lsItems

\* AuthService.logout up to its await, or to its end when no token is stored
UiLogout ==
    /\ Call([name |-> "logout", username |-> ""])
    /\ IF Missing(lsItems[ACCESS_TOKEN_KEY])
       THEN /\ lsItems' = clearAuthData(lsItems)
            /\ Settle(Returned(Null))
            /\ UNCHANGED <<uiRequest, uiReply>>
       ELSE /\ Await(Request("POST", "/api/auth/logout", {}, lsItems[ACCESS_TOKEN_KEY]))
            /\ UNCHANGED lsItems

\* AuthService.refreshToken up to its await, or null without a stored token
UiRefreshToken ==
    /\ Call([name |-> "refreshToken", username |-> ""])
    /\ IF Missing(lsItems[REFRESH_TOKEN_KEY])
       THEN /\ Settle(Returned(Null))
            /\ UNCHANGED <<uiRequest, uiReply>>
       ELSE Await(Request("POST", "/api/auth/refresh",
                          {<<"refresh_token", lsItems[REFRESH_TOKEN_KEY][1]>>}, Null))
    /\ UNCHANGED lsItems

\* AuthService.validateToken up to its await, or false without a token
UiValidateToken ==
    /\ Call([name |-> "validateToken", username |-> ""])
    /\ IF Missing(lsItems[ACCESS_TOKEN_KEY])
       THEN /\ Settle(Returned(Some(FALSE)))
            /\ UNCHANGED <<uiRequest, uiReply>>
       ELSE Await(Request("GET", "/api/auth/validate", {}, lsItems[ACCESS_TOKEN_KEY]))
    /\ UNCHANGED lsItems

\* AuthService.isAuthenticated: false without token or user data, and the
\* session is dropped when its expiry has passed
UiIsAuthenticated ==
    /\ Call([name |-> "isAuthenticated", username |-> ""])
    /\ UNCHANGED <<uiRequest, uiReply>>
    /\ IF Missing(lsItems[ACCESS_TOKEN_KEY]) \/ lsItems[USER_DATA_KEY] = Null
       THEN /\ Settle(Returned(Some(FALSE)))
            /\ UNCHANGED lsItems
       ELSE \E expired \in BOOLEAN :
               IF lsItems[USER_DATA_KEY][1].expiresAt # Null /\ expired
               THEN /\ lsItems' = clearAuthData(lsItems)
                    /\ Settle(Returned(Some(FALSE)))
               ELSE /\ Settle(Returned(Some(TRUE)))
                    /\ UNCHANGED lsItems

\* The GET of ProductsService.getProducts, with the stored token if any
GetProductsRequest(items) ==
    Request("GET", "/api/products", {}, getAuthorizationHeader(items))

\* ProductsService.getProducts up to its await
UiGetProducts ==
    /\ Call([name |-> "getProducts", username |-> ""])
    /\ Await(GetProductsRequest(lsItems))
    /\ UNCHANGED lsItems

\* The awaited request of an AuthService operation ends and the operation
\* runs to its end
AuthRequestEnds ==
    /\ uiPc = "awaiting"
    /\ uiOp.name \in {"login", "logout", "refreshToken", "validateToken"}
    /\ \E reply \in UiReplies :
          /\ uiReply' = reply
          /\ CASE uiOp.name = "login" ->
                     /\ Settle(LoginOutcome(lsItems, uiOp.username, reply).result)
                     /\ lsItems' = LoginOutcome(lsItems, uiOp.username, reply).items
               [] uiOp.name = "logout" ->
                     /\ Settle(Returned(Null))
                     /\ lsItems' = clearAuthData(lsItems)
               [] uiOp.name = "refreshToken" ->
                     LET refreshToken == (CHOOSE p \in uiRequest.body : TRUE)[2]
                     IN /\ Settle(RefreshOutcome(lsItems, refreshToken, reply).result)
                        /\ lsItems' = RefreshOutcome(lsItems, refreshToken, reply).items
               [] uiOp.name = "validateToken" ->
                     /\ Settle(Returned(Some(Resolved(reply))))
                     /\ UNCHANGED lsItems
    /\ UNCHANGED <<uiOp, uiRequest, uiPath, uiClicked>>
    /\ UNCHANGED notUi

\* The awaited GET of getProducts ends: the list is returned, or on a 401
\* refreshToken is called, or the operation throws
ProductsRequestEnds ==
    /\ uiPc = "awaiting"
    /\ uiOp.name = "getProducts"
    /\ uiRequest.url = "/api/products"
    /\ \E reply \in UiReplies :
          /\ uiReply' = reply
          /\ IF Resolved(reply)
             THEN /\ Settle(IF reply.body.data # Null /\ reply.body.data[1].isArray
                            THEN Returned(Some("products"))
                            ELSE Thrown("An unexpected error occurred while fetching products"))
                  /\ UNCHANGED <<uiRequest, lsItems>>
             ELSE IF reply.kind = "response" /\ reply.status = 401
             THEN IF Missing(lsItems[REFRESH_TOKEN_KEY])
                  THEN /\ Settle(Thrown("Authentication expired. Please login again."))
                       /\ UNCHANGED <<uiRequest, lsItems>>
                  ELSE /\ uiRequest' =
                             Request("POST", "/api/auth/refresh",
                                     {<<"refresh_token", lsItems[REFRESH_TOKEN_KEY][1]>>}, Null)
                       /\ UNCHANGED <<uiPc, uiResult, lsItems>>
             ELSE /\ Settle(Thrown(ProductsError(reply)))
                  /\ UNCHANGED <<uiRequest, lsItems>>
    /\ UNCHANGED <<uiOp, uiPath, uiClicked>>
    /\ UNCHANGED notUi

\* The refresh that getProducts awaits ends: with a renewed session
\* getProducts calls itself, which issues the GET again; without one it throws
ProductsRefreshEnds ==
    /\ uiPc = "awaiting"
    /\ uiOp.name = "getProducts"
    /\ uiRequest.url = "/api/auth/refresh"
    /\ \E reply \in UiReplies :
          LET refreshToken == (CHOOSE p \in uiRequest.body : TRUE)[2]
              outcome == RefreshOutcome(lsItems, refreshToken, reply)
          IN /\ lsItems' = outcome.items
             /\ IF outcome.result.value # Null
                THEN /\ uiRequest' = GetProductsRequest(outcome.items)
                     /\ uiReply' = None
                     /\ UNCHANGED <<uiPc, uiResult>>
                ELSE /\ uiReply' = reply
                     /\ Settle(Thrown("Authentication expired. Please login again."))
                     /\ UNCHANGED uiRequest
    /\ UNCHANGED <<uiOp, uiPath, uiClicked>>
    /\ UNCHANGED notUi

\* The address bar: the pages the router serves
Visit ==
    /\ uiPc = "idle"
    /\ \E path \in {"/login", "/products"} :
          /\ path # uiPath
          /\ uiPath' = path
    /\ uiClicked' = ""
    /\ UNCHANGED <<uiPc, uiOp, uiRequest, uiReply, uiResult, lsItems>>
    /\ UNCHANGED notUi

\* The Logout button of the navigation bar, which Layout shows on every
\* page but /login: Navbar.handleLogout
NavbarLogout ==
    /\ uiPc = "idle"
    /\ uiPath # "/login"
    /\ uiClicked' = "Logout"
    /\ lsItems' = [lsItems EXCEPT !["jwtToken"] = Null]
    /\ uiPath' = "/login"
    /\ UNCHANGED <<uiPc, uiOp, uiRequest, uiReply, uiResult>>
    /\ UNCHANGED notUi

\* The caller has the operation's result
UiDone ==
    /\ uiPc = "done"
    /\ uiPc' = "idle"
    /\ uiOp' = None
    /\ uiRequest' = None
    /\ uiReply' = None
    /\ uiResult' = None
    /\ UNCHANGED <<lsItems, uiPath, uiClicked>>
    /\ UNCHANGED notUi

UiNext ==
    \/ UiLogin
    \/ UiLogout
    \/ UiRefreshToken
    \/ UiValidateToken
    \/ UiIsAuthenticated
    \/ UiGetProducts
    \/ AuthRequestEnds
    \/ ProductsRequestEnds
    \/ ProductsRefreshEnds
    \/ Visit
    \/ NavbarLogout
    \/ UiDone

(***************************************************************************)
(* Process shutdown: the index.ts of the gateway, of the auth service and  *)
(* of the products service, and DatabaseConnection                          *)
(***************************************************************************)

Processes == {"gateway", "auth", "products"}

Signals == {"SIGTERM", "SIGINT"}

\* Clients of the pool checked out by queries in progress (the pool's own
\* limit is 20)
MaxClients == 2

ShutdownInit ==
    /\ procState = [p \in Processes |-> "running"]
    /\ procSignal = [p \in Processes |-> ""]
    /\ exitCode = [p \in Processes |-> Null]
    /\ poolState = "open"
    /\ poolClients = 0

\* process.exit(code)
Exit(p, code) ==
    /\ procState' = [procState EXCEPT ![p] = "exited"]
    /\ exitCode' = [exitCode EXCEPT ![p] = Some(code)]

\* The signal handlers of the gateway and of the auth service: log, exit
SignalGatewayOrAuth ==
    /\ \E p \in {"gateway", "auth"}, sig \in Signals :
          /\ procState[p] = "running"
          /\ procSignal' = [procSignal EXCEPT ![p] = sig]
          /\ Exit(p, 0)
    /\ UNCHANGED <<poolState, poolClients>>
    /\ UNCHANGED notShutdown

\* A products handler that exits as the other two do
SignalProductsExitsAtOnce ==
    /\ \E sig \in Signals :
          /\ procState["products"] = "running"
          /\ procSignal' = [procSignal EXCEPT !["products"] = sig]
          /\ Exit("products", 0)
    /\ UNCHANGED <<poolState, poolClients>>
    /\ UNCHANGED notShutdown

\* The signal handlers of the products service up to await database.close():
\* pool.end() is called, which closes the idle clients and resolves once
\* the clients checked out have been released
SignalProducts ==
    /\ \E sig \in Signals :
          /\ procState["products"] = "running"
          /\ procSignal' = [procSignal EXCEPT !["products"] = sig]
          /\ procState' = [procState EXCEPT !["products"] = "closing"]
    /\ poolState' = "ending"
    /\ UNCHANGED <<exitCode, poolClients>>
    /\ UNCHANGED notShutdown

\* A query of the products service checks a client out of the open pool
QueryStarts ==
    /\ procState["products"] = "running"
    /\ poolState = "open"
    /\ poolClients < MaxClients
    /\ poolClients' = poolClients + 1
    /\ UNCHANGED <<procState, procSignal, exitCode, poolState>>
    /\ UNCHANGED notShutdown

\* A query ends and its client is released
QueryEnds ==
    /\ procState["products"] # "exited"
    /\ poolClients > 0
    /\ poolClients' = poolClients - 1
    /\ UNCHANGED <<procState, procSignal, exitCode, poolState>>
    /\ UNCHANGED notShutdown

\* pool.end() resolves: no client is left
PoolEnds ==
    /\ poolState = "ending"
    /\ procState["products"] = "closing"
    /\ poolClients = 0
    /\ poolState' = "closed"
    /\ UNCHANGED <<procState, procSignal, exitCode, poolClients>>
    /\ UNCHANGED notShutdown

\* The handler resumes after await database.close(): process.exit(0)
ProductsExits ==
    /\ procState["products"] = "closing"
    /\ poolState = "closed"
    /\ Exit("products", 0)
    /\ UNCHANGED <<procSignal, poolState, poolClients>>
    /\ UNCHANGED notShutdown

\* pool.on('error'): an idle client of the open pool fails, process.exit(-1)
PoolError ==
    /\ procState["products"] = "running"
    /\ poolState = "open"
    /\ Exit("products", -1)
    /\ UNCHANGED <<procSignal, poolState, poolClients>>
    /\ UNCHANGED notShutdown

ShutdownNext ==
    \/ SignalGatewayOrAuth
    \/ SignalProducts
    \/ QueryStarts
    \/ QueryEnds
    \/ PoolEnds
    \/ ProductsExits
    \/ PoolError

(***************************************************************************)
(* Specifications                                                          *)
(***************************************************************************)
Init == GatewayInit /\ AuthInit /\ AuthApiInit /\ HealthInit /\ ProductsInit /\ UiInit
        /\ ShutdownInit

SpecGateway == Init /\ [][GatewayNext]_vars

SpecAuth == Init /\ [][AuthNext]_vars

SpecAuthApi == Init /\ [][AuthApiNext]_vars

SpecHealth == Init /\ [][HealthNext]_vars

SpecProducts == Init /\ [][ProductsNext]_vars

SpecUi == Init /\ [][UiNext]_vars

SpecShutdown == Init /\ [][ShutdownNext]_vars

(***************************************************************************)
(* Gateway properties                                                      *)
(***************************************************************************)
\* The request was answered by the token verifier itself
VerifierAnswered == gwPc = "done" /\ gwTarget = "none" /\ gwReq.path.head \in ProtectedPrefixes

\* The failure condition of the token verifier that the request ran into
VerifierCondition ==
    IF "authorization" \notin DOMAIN gwReq.headers THEN "missing"
    ELSE IF TokenOf(gwReq.headers["authorization"]) = "" THEN "missing"
    ELSE gwVerify

\* C1: a request whose path matches a protected prefix is forwarded only
\* after the token verifier accepted its bearer token; with a missing or
\* rejected token it is never forwarded.
C1_ForwardOnlyVerified ==
    (gwReq # None /\ gwReq.path.head \in ProtectedPrefixes /\ gwCalls # << >>)
        => gwUser # None

\* C2: every request under /api/auth/* is forwarded, without token
\* verification, to the auth service with path /auth/*.
C2_AuthForwarded ==
    (gwPc = "done" /\ gwReq.path.head = "/auth")
        => /\ gwVerify = "none"
           /\ Len(gwCalls) = 1
           /\ gwCalls[1].service = "auth"
           /\ gwCalls[1].path = gwReq.path

\* C3: a downstream call that fails by connection refusal, DNS failure or
\* timeout (the per-service timeout of the call included) is answered 502
\* SERVICE_UNAVAILABLE; only another local error is answered 500 GATEWAY_ERROR.
C3_UnreachableIs502 ==
    (gwPc = "done" /\ gwDown # None /\ gwDown.error # None)
        => IF gwDown.error.kind \in {"refused", "dns", "socketTimeout", "timeoutOption"}
           THEN gwRes.status = 502 /\ gwRes.body.v.code = "SERVICE_UNAVAILABLE"
           ELSE gwRes.status = 500 /\ gwRes.body.v.code = "GATEWAY_ERROR"

\* C4: forwardRequest with a service name that is not configured answers 404
\* with an error containing that name and makes no outbound call.
C4_UnknownService404 ==
    (gwTarget \notin {"none", "products", "suppliers", "users"})
        => /\ gwPc = "done"
           /\ gwRes.status = 404
           /\ gwRes.body.v.success = FALSE
           /\ Includes(gwRes.body.v.error, gwTarget)
           /\ gwCalls = << >>
           /\ gwDown = None

C4_Witness == gwPc = "done" /\ gwTarget = "auth" /\ gwRes.status = 404

\* C5: whatever response the downstream returns, the gateway's response has
\* the same status code and the same body.
C5_RelayedVerbatim ==
    (gwPc = "done" /\ gwDown # None /\ gwDown.response # None)
        => /\ gwRes.status = gwDown.response.status
           /\ gwRes.body = gwDown.response.body

ClaimedConditions == {"missing", "unreachable", "keyNotFound", "badSignature",
                      "audience", "issuer", "expired"}

\* The error messages the verifier gives for a failure condition
MessagesOf(condition) ==
    IF condition = "missing"
    THEN {<<"No authorization header provided">>, <<"No token provided">>}
    ELSE {VerifyErrorResponse(VerifyErrorMessage(condition)).body.v.error}

\* C7 as stated: each failure condition is answered 401 with a message that
\* no other failure condition gets, and an unexpected error is answered 500.
C7_DistinguishingMessages ==
    VerifierAnswered =>
        /\ VerifierCondition = "throws" => gwRes.status = 500
        /\ VerifierCondition \in ClaimedConditions =>
              /\ gwRes.status = 401
              /\ \A other \in ClaimedConditions \ {VerifierCondition} :
                    gwRes.body.v.error \notin MessagesOf(other)

\* C7 amended: every failure condition is answered 401; a missing token, an
\* audience mismatch and an issuer mismatch get a message of their own (and
\* a key set answering Not Found gets 'Keycloak server or realm not found'),
\* while provider unreachable, key not found, signature invalid and expired
\* token all get 'Invalid or expired token'; an unexpected error gets 500.
C7_FailureAnswers ==
    VerifierAnswered =>
        LET c == VerifierCondition
            e == gwRes.body.v.error
        IN /\ c = "throws" => gwRes.status = 500
           /\ c # "throws" => gwRes.status = 401
           /\ c = "missing" => e \in {<<"No authorization header provided">>,
                                      <<"No token provided">>}
           /\ c = "audience" => e = <<"Token audience mismatch">>
           /\ c = "issuer" => e = <<"Token issuer mismatch">>
           /\ c = "providerNotFound" => e = <<"Keycloak server or realm not found">>
           /\ c \in {"unreachable", "keyNotFound", "badSignature", "expired"}
                 => e = <<"Invalid or expired token">>

C7_Witness ==
    VerifierAnswered /\ VerifierCondition = "expired" /\ gwRes.status = 401

(***************************************************************************)
(* Auth service properties                                                 *)
(***************************************************************************)
\* Empty or made of whitespace only
AllSpaces(s) == \A k \in 1..Len(s) : s[k] = " "

\* C8: an empty or whitespace-only username, password, refresh token or
\* access token makes authenticate, refreshToken, logout and validateToken
\* report failure (failure result, false, thrown 'Token is required')
\* without any call to the identity-provider client.
C8_BlankRejectedLocally ==
    (asCall # None /\ \E i \in 1..Len(asCall.args) : AllSpaces(asCall.args[i]))
        => /\ asPc = "done"
           /\ kcCalls = << >>
           /\ kcReply = None
           /\ CASE asCall.op \in {"authenticate", "refreshToken"} ->
                      asResult.kind = "return" /\ asResult.value.success = FALSE
                [] asCall.op = "logout" ->
                      asResult.kind = "return" /\ asResult.value = FALSE
                [] OTHER ->
                      asResult.kind = "throw" /\ asResult.value.message = "Token is required"

C8_Witness ==
    /\ asPc = "done"
    /\ asCall.op = "authenticate"
    /\ Len(asCall.args[1]) > 0 /\ ~AllSpaces(asCall.args[1])
    /\ Len(asCall.args[2]) > 0 /\ AllSpaces(asCall.args[2])
    /\ kcCalls = << >>
    /\ asResult.value.error = "Invalid credentials"

\* C9: every input that passes local validation reaches the provider client
\* with its surrounding whitespace removed: the value the client receives
\* equals the trimmed input.
C9_TrimmedInputsSent ==
    \A i \in 1..Len(kcCalls) :
        /\ Len(kcCalls[i].args) = Len(asCall.args)
        /\ \A k \in 1..Len(asCall.args) : kcCalls[i].args[k] = trim(asCall.args[k])

\* C10: an HTTP error response of the token endpoint is classified by status
\* and body: 400 invalid_grant 'Invalid credentials', other 400 'Bad request',
\* 401 'Unauthorized', 403 'Forbidden', 500 'Server error', any other status
\* 'Authentication failed'; the same for authenticate and refreshToken, and
\* always with success=false.
C10_ErrorClassification ==
    (/\ asPc = "done"
     /\ asCall.op \in {"authenticate", "refreshToken"}
     /\ kcReply # None
     /\ kcReply.kind = "rejected"
     /\ kcReply.response # None)
        => LET status == kcReply.response.status
               body == kcReply.response.data
           IN /\ asResult.kind = "return"
              /\ asResult.value.success = FALSE
              /\ asResult.value.error =
                    CASE status = 400 /\ body.error = "invalid_grant" -> "Invalid credentials"
                      [] status = 400 /\ body.error # "invalid_grant" -> "Bad request"
                      [] status = 401 -> "Unauthorized"
                      [] status = 403 -> "Forbidden"
                      [] status = 500 -> "Server error"
                      [] OTHER -> "Authentication failed"

C10_Witness ==
    /\ asPc = "done"
    /\ asCall.op = "refreshToken"
    /\ kcReply # None
    /\ kcReply.kind = "rejected"
    /\ kcReply.response # None
    /\ kcReply.response.status = 403
    /\ asResult.value.error = "Forbidden"

\* C11: a provider call that fails with connection refused or a DNS failure
\* is classified 'Keycloak server is not available', and one that fails with
\* a timeout (the socket's, or the expiry of the call's own 10 s timeout) is
\* classified 'Request timeout', before any look at the HTTP status.
C11_NetworkClassification ==
    (/\ asPc = "done"
     /\ asCall.op \in {"authenticate", "refreshToken"}
     /\ kcReply # None
     /\ kcReply.kind = "rejected")
        => /\ kcReply.code \in {"ECONNREFUSED", "ENOTFOUND"}
                 => asResult.value.error = "Keycloak server is not available"
           /\ kcReply.code \in {"ETIMEDOUT", "ECONNABORTED"}
                 => asResult.value.error = "Request timeout"

(***************************************************************************)
(* Auth controller properties                                              *)
(***************************************************************************)
\* A login or refresh request whose service call is over and answered
TokenRequestAnswered ==
    acPc = "done" /\ acReq.route \in {"login", "refresh"} /\ asResult # None

\* C12: a failed login or refresh is answered 401 when the adapter's error is
\* 'Invalid credentials', 503 when it is 'Keycloak server is not available'
\* or 'Request timeout', and 500 when the service call throws; a successful
\* one is answered 200 with the token fields under data.
C12_ControllerStatuses ==
    TokenRequestAnswered =>
        IF asResult.kind = "throw"
        THEN acRes.status = 500
        ELSE IF asResult.value.success
        THEN /\ acRes.status = 200
             /\ acRes.body.success
             /\ acRes.body.data = [accessToken      |-> kcReply.data.access_token,
                                   refreshToken     |-> kcReply.data.refresh_token,
                                   tokenType        |-> kcReply.data.token_type,
                                   expiresIn        |-> kcReply.data.expires_in,
                                   refreshExpiresIn |-> kcReply.data.refresh_expires_in]
        ELSE /\ asResult.value.error = "Invalid credentials" => acRes.status = 401
             /\ asResult.value.error \in {"Keycloak server is not available",
                                          "Request timeout"} => acRes.status = 503

C12_Witness ==
    /\ TokenRequestAnswered
    /\ acReq.route = "login"
    /\ acReq.body.password = Number1
    /\ asResult.kind = "throw"
    /\ acRes.status = 500
    /\ acRes.body.error = "Internal server error"

\* C13: a login or refresh failure that the adapter classifies as an
\* authentication or authorization failure (invalid credentials,
\* unauthorized, forbidden) is answered 401 or 403, and one it classifies as
\* a bad request or a local validation error is answered 400; none of them
\* is answered with a 5xx status.
C13_ClientErrorsNot5xx ==
    (TokenRequestAnswered /\ asResult.kind = "return" /\ ~asResult.value.success)
        => /\ asResult.value.error \in {"Invalid credentials", "Unauthorized", "Forbidden"}
                 => acRes.status \in {401, 403}
           /\ asResult.value.error \in {"Bad request", "Missing credentials",
                                        "Missing refresh token"}
                 => acRes.status = 400

\* C14: KeycloakClient.logout never throws: it returns false however the
\* call to the provider's logout endpoint fails and true when the call
\* completes; the controller answers a false result with 500 'Logout failed'.
C14_LogoutNeverThrows ==
    (acReq # None /\ acReq.route = "logout")
        => /\ kcReply # None
                 => /\ asResult.kind = "return"
                    /\ asResult.value = (kcReply.kind = "resolved")
           /\ (acPc = "done" /\ asResult = Returned(FALSE))
                 => /\ acRes.status = 500
                    /\ acRes.body.error = "Logout failed"

C14_Witness ==
    /\ acPc = "done"
    /\ acReq.route = "logout"
    /\ kcReply # None
    /\ kcReply.kind = "rejected"
    /\ kcReply.response # None
    /\ kcReply.response.status = 400
    /\ asResult = Returned(FALSE)
    /\ acRes.status = 500

\* A request to GET /validate that has been answered
ValidateAnswered == acPc = "done" /\ acReq.route = "validate"

\* The provider reported the bearer token active
ReportedActive == kcReply # None /\ kcReply.kind = "resolved" /\ kcReply.data.active

\* C15 as stated: GET /validate answers every request with 200 and the
\* token info when the provider reports the bearer token active, and with
\* 401 otherwise (token missing, malformed or reported inactive).
C15_ValidateAnswers ==
    ValidateAnswered =>
        IF ReportedActive
        THEN acRes.status = 200 /\ acRes.body.data = kcReply.data
        ELSE acRes.status = 401

\* C15 amended: GET /validate answers 400 'Invalid authorization header',
\* without calling the service, when the Authorization header is missing or
\* does not start with 'Bearer '; otherwise 200 with the token info when the
\* provider reports the token active, 401 'Invalid token' when it reports
\* it inactive, and 500 when the introspection call fails.
C15_ValidateAnswersAmended ==
    ValidateAnswered =>
        IF acReq.authorization = Undefined \/ ~startsWithBearer(acReq.authorization.s)
        THEN /\ acRes.status = 400
             /\ acRes.body.error = "Invalid authorization header"
             /\ asCall = None /\ kcCalls = << >>
        ELSE IF kcReply # None /\ kcReply.kind = "resolved"
        THEN IF kcReply.data.active
             THEN acRes.status = 200 /\ acRes.body.data = kcReply.data
             ELSE acRes.status = 401 /\ acRes.body.error = "Invalid token"
        ELSE acRes.status = 500 /\ acRes.body.error = "Internal server error"

C15_Witness ==
    /\ ValidateAnswered
    /\ acReq.authorization = Str(<<"Bearer", "tok">>)
    /\ kcReply # None /\ kcReply.kind = "resolved" /\ ~kcReply.data.active
    /\ acRes.status = 401

Usable(v) == v.kind = "number" /\ v.n > 0

\* C17: GET /api/v1/products runs the category query when a usable category
\* id is given (whatever the supplier), otherwise the supplier query when a
\* usable supplier id is given, otherwise the full scan; exactly one
\* repository query is executed per request.
C17_FilterPriority ==
    (pdPc = "done" /\ pdReq.op = "getAllProducts")
        => LET categoryId == queryId(pdReq.category)
               supplierId == queryId(pdReq.supplier)
           IN /\ Len(pdQueries) = 1
              /\ pdQueries[1] =
                    IF Usable(categoryId)
                    THEN [query |-> "getProductsByCategory", args |-> <<categoryId.n>>]
                    ELSE IF Usable(supplierId)
                    THEN [query |-> "getProductsBySupplier", args |-> <<supplierId.n>>]
                    ELSE [query |-> "getAllProducts", args |-> << >>]

\* A path segment that does not begin with a number
NonNumeric(segment) ==
    ~ \/ segment[1] \in Digits
      \/ segment[1] = "-" /\ Len(segment) > 1 /\ segment[2] \in Digits

C19_ErrorStatuses ==
    (pdPc = "done" /\ pdRes.status # Null /\ ~pdRes.result.success)
        => LET error == pdRes.result.error[1]
           IN /\ (pdQueries # << >> /\ error = RepositoryError(pdQueries[1].query))
                    => pdRes.status = Some(500)
              /\ error.text \in {"Invalid product ID format", "Invalid product ID provided",
                                 "Invalid category ID provided",
                                 "Invalid supplier ID provided"}
                    => pdRes.status = Some(400)
              /\ includesNotFound(pdRes.result) => pdRes.status = Some(404)

\* C20: after a product is created, fetching it by the id the create
\* returned, with no other write to that id in between, yields in every
\* column other than the id the value that was submitted.
C20_CreateFetchRoundTrip ==
    (/\ pdPc = "done"
     /\ pdReq.op = "getProductById"
     /\ pdCreated # None
     /\ parseInt(pdReq.id) = Num(pdCreated.id)
     /\ pdRes.result.success)
        => \A c \in Columns : pdRes.result.data[1][c] = pdCreated.submitted[c]

\* An updateProduct or deleteProduct whose statement the database executed
\* ends in this step
WriteEnds(op) ==
    /\ pdPc = "querying"
    /\ pdPc' = "done"
    /\ pdReq.op = op
    /\ pdRes'.result.error # Some(RepositoryError(op))

C22_PartialUpdate ==
    [][(WriteEnds("updateProduct") /\ dbProducts[pdReq.id] # Null)
          => /\ \A c \in Columns :
                   dbProducts'[pdReq.id][1][c] =
                      IF c \in pdReq.product.given
                      THEN pdReq.product.values[c]
                      ELSE dbProducts[pdReq.id][1][c]
             /\ \A other \in Ids \ {pdReq.id} : dbProducts'[other] = dbProducts[other]
      ]_vars

\* C23: whatever error the database raises for a query, the operation ends
\* with the failure result of the repository method's own fixed message, so
\* the result and the response are the same for any two database errors and
\* carry no text of the database's error
C23_GenericDatabaseErrors ==
    (pdPc = "done" /\ dbError # None)
       => LET q == pdQueries[Len(pdQueries)].query
              result == ErrorResult(RepositoryError(q))
          IN /\ pdRes.result = result
             /\ pdRes.status = HandlerStatus(pdReq.op, result)
             /\ \A err \in DatabaseErrors : pdRes.result.error # Some(Message(err.message))

C23_Witness ==
    /\ pdPc = "done"
    /\ pdReq.op = "createProduct"
    /\ dbError # None
    /\ dbError.code = "23502"
    /\ pdRes.result.error = Some(Message("Failed to create product"))

(***************************************************************************)
(* Web client properties                                                   *)
(***************************************************************************)

\* C24: when refreshToken() has sent its stored token to POST
\* /api/auth/refresh and got the auth service's answer for a token the
\* provider accepts, it returns a user whose token is the new access token
\* and the stored tokens are the new ones
C24_RefreshRenewsSession ==
    (/\ uiPc = "done"
     /\ uiOp.name = "refreshToken"
     /\ uiReply # None
     /\ uiReply = AuthServiceRefresh(uiRequest.body))
       => /\ uiResult.value # Null
          /\ uiResult.value[1].token = Some("at")
          /\ lsItems[ACCESS_TOKEN_KEY] = Some("at")
          /\ lsItems[REFRESH_TOKEN_KEY] = Some("rt")

\* C25: activating the Logout control shown on the Products page leaves
\* the three session keys of localStorage absent and the router on /login
C25_LogoutControl ==
    [][(uiPath = "/products" /\ uiClicked' = "Logout")
          => /\ \A k \in SessionKeys : lsItems'[k] = Null
             /\ uiPath' = "/login"
      ]_vars

(***************************************************************************)
(* Gateway forwarding and health aggregation, continued                    *)
(***************************************************************************)

\* C26: a request handed to a configured service makes exactly one outbound
\* call and gets exactly one response: the call list never grows past one,
\* a failed call is followed by the response and not by another call, and
\* a response once sent is not replaced
C26_OneCallOneResponse ==
    [][/\ Len(gwCalls') <= 1
       /\ (gwPc' = "done" /\ gwTarget' \in DOMAIN services)
             => (Len(gwCalls') = 1 /\ gwRes' # None)
       /\ (gwPc = "awaiting" /\ gwDown' # None /\ gwDown'.error # None)
             => (gwCalls' = gwCalls /\ gwPc' = "done" /\ gwRes' # None)
       /\ (gwRes # None /\ gwPc' # "idle") => gwRes' = gwRes
      ]_vars

C26_Witness ==
    /\ gwPc = "done"
    /\ gwTarget \in DOMAIN services
    /\ services[gwTarget].retries = 3
    /\ gwDown # None
    /\ gwDown.error # None
    /\ Len(gwCalls) = 1
    /\ gwRes.status \in {502, 503, 504}

\* C27: the health aggregation has at most one health request in flight
\* at any time
C27_SerialHealthChecks == Cardinality(hcFlight) <= 1

\* C27, amended: GET /health issues the health request of every configured
\* service before any of them has ended, the requests end in any order, and
\* the answer is sent once none is in flight
C27_ConcurrentHealthChecks ==
    [][/\ (hcPc = "idle" /\ hcPc' = "checking")
             => hcFlight' = { k \in 1..Len(ServiceNames) : ServiceNames[k] \in DOMAIN services }
       /\ (hcPc = "checking" /\ hcPc' = "checking")
             => (hcFlight' \subseteq hcFlight /\ Cardinality(hcFlight') = Cardinality(hcFlight) - 1)
       /\ (hcPc = "checking" /\ hcPc' = "done") => hcFlight = {}
      ]_vars

C27_Witness ==
    /\ hcPc = "checking"
    /\ hcFlight = {1, 3}
    /\ hcOutcome[2] # None

(***************************************************************************)
(* Shutdown properties                                                     *)
(***************************************************************************)

SessionAbsent == \A k \in SessionKeys : lsItems[k] = Null

SessionPresent == \A k \in SessionKeys : lsItems[k] # Null

SpecUiLive == Init /\ [][UiNext]_vars /\ WF_vars(UiNext)

\* C30: a call of getProducts ends, by returning the list or by throwing
C30_GetProductsTerminates ==
    (uiPc = "awaiting" /\ uiOp.name = "getProducts") ~> (uiPc = "done")

====
